---- MODULE Spec2Model ----
(***************************************************************************)
(* gui-sync: one synchronisation cycle of a local directory with an S3     *)
(* bucket (src/main.go).  syncDirectoryWithS3 runs uploadDirectoryToS3     *)
(* (walk + change detection + a pool of upload workers fed by a buffered   *)
(* channel) and then deleteRemovedFilesFromS3 (second walk + paginated     *)
(* LIST + DELETE of remote keys that have no local file).                  *)
(*                                                                         *)
(* Strings that the code inspects (paths, ignore patterns, ETags, MD5 hex  *)
(* digests) are sequences of one-character strings, so that                *)
(* filepath.Base, strings.Trim and strings.Contains are computed.          *)
(***************************************************************************)
EXTENDS Integers, Sequences, FiniteSets, TLC

VARIABLES
    local,          \* the directory tree: key -> file or NoFile
    remote,         \* the bucket: key -> object or NoObj
    ignorePatterns, \* main.go:31, filled before the first cycle
    now,            \* the bucket's clock, stamped on uploaded objects
    faulty,         \* the keys whose upload may fail in this cycle
    pc,             \* position of the goroutine running syncDirectoryWithS3
    wi,             \* index of the next entry of the upload-phase walk
    pending,        \* the task the walk callback is sending on the channel
    walkErr,        \* err returned by filepath.Walk in uploadDirectoryToS3
    tasks,          \* the buffered channel of upload tasks
    closed,         \* close(tasks) has run
    wstate,         \* worker goroutine -> "none" | "recv" | "upload" | "exited"
    wtask,          \* worker goroutine -> the task it took
    uploadErrors,   \* main.go:178, appended under errorMutex
    localFiles,     \* main.go:258, the reconciler's key set
    marker,         \* number of keys of the listing already delivered
    page,           \* Contents of the LIST page being handled
    lastPage,       \* the page being handled is the last one
    pi,             \* index of the next object of the page
    result,         \* what syncDirectoryWithS3 returned
    examined,       \* history: keys fileChangedOnS3 was called for
    headErr,        \* history: keys whose HEAD failed other than not-found
    hashErr,        \* history: keys whose local hashing failed
    skipped,        \* history: keys reported as synchronised
    enqueued,       \* history: keys sent on the channel, in order
    attempts,       \* history: key -> number of uploadFileS3 calls
    failedUp,       \* history: keys whose uploadFileS3 returned an error
    lists,          \* history: number of LIST page requests issued
    listed,         \* history: keys delivered by LIST pages
    deletes,        \* history: key -> number of DeleteObject calls
    deleteErr,      \* history: keys whose DeleteObject failed
    phaseErr,       \* history: which step made the cycle fail
    dIn,            \* change detection on its own: the inputs
    dOut,           \* change detection on its own: the result
    upOut,          \* one upload on its own: what uploadFileS3 returned
    mp,             \* one multipart upload on its own: the uploader's state
    ignOut,         \* the matcher on its own: the path and what it returned
    cycle,          \* the number of the cycle, counted from the program start
    sched,          \* the cron scheduler: "off" | "on" | "fatal"
    prev,           \* history: how the cycle before this one ended
    errorMutex,     \* main.go:179: 0 when free, else the worker holding it
    held,           \* worker goroutine -> the slice it read for its append
    other           \* a cycle the scheduler started while one was running

vars == << local, remote, ignorePatterns, now, faulty, pc, wi, pending, walkErr, tasks,
           closed, wstate, wtask, uploadErrors, localFiles, marker, page,
           lastPage, pi, result, examined, headErr, hashErr, skipped, enqueued,
           attempts, failedUp, lists, listed, deletes, deleteErr, phaseErr,
           dIn, dOut, upOut, mp, ignOut, cycle, sched, prev, errorMutex,
           held, other >>

---------------------------------------------------------------------------
(* Program constants and model bounds *)

multipartThreshold == 100 * 1024 * 1024
partSize == 50 * 1024 * 1024
uploadWorkers == 5
partConcurrency == 3
\* capacity of the tasks channel; the program uses 100, the model a capacity
\* its few files can fill, so that the blocked send happens
tasksCap == 1
\* keys per LIST page (S3 delivers up to 1000)
PageSize == 2
\* modification times and clocks range over 0..MaxTime
MaxTime == 2
\* the most parts one multipart upload may have (main.go:445 sets 10000),
\* scaled so that a file of more parts of partSize fits a 32-bit size
MaxUploadParts == 4

\* mutant: one goroutine more than uploadWorkers is started
Workers_oneMore == 1..(uploadWorkers + 1)

Workers == 1..uploadWorkers
Times == 0..MaxTime
Nil == "nil"
NoFile == [absent |-> TRUE]
NoObj == [missing |-> TRUE]
NoTask == [none |-> TRUE]
NoInput == [unused |-> TRUE]
\* the state of a cycle that has not been started
OtherIdle == [pc |-> "off", wi |-> 1, localFiles |-> {}, page |-> <<>>,
              pi |-> 1]

---------------------------------------------------------------------------
(* Strings *)

Quote == "\""
Hyphen == "-"
Slash == "/"

RECURSIVE TrimLeft(_, _)
TrimLeft(s, cut) ==
    IF s # <<>> /\ Head(s) = cut THEN TrimLeft(Tail(s), cut) ELSE s

RECURSIVE TrimRight(_, _)
TrimRight(s, cut) ==
    IF s # <<>> /\ s[Len(s)] = cut
    THEN TrimRight(SubSeq(s, 1, Len(s) - 1), cut) ELSE s

\* strings.Trim(s, cutset) with a one-character cutset
Trim(s, cut) == TrimRight(TrimLeft(s, cut), cut)

\* strings.Contains(s, c) for a one-character c
Contains(s, c) == \E i \in 1..Len(s) : s[i] = c

\* what follows the last slash of a path
RECURSIVE LastElement(_)
LastElement(path) ==
    IF \E i \in 1..Len(path) : path[i] = Slash
    THEN LastElement(Tail(path))
    ELSE path

\* filepath.Base of a slash-separated path: trailing slashes are removed
\* first; the empty path gives ".", a path of slashes gives "/"
Base(path) ==
    IF path = <<>> THEN <<".">>
    ELSE LET p == TrimRight(path, Slash)
         IN  IF p = <<>> THEN <<Slash>> ELSE LastElement(p)

---------------------------------------------------------------------------
(* File contents, digests and keys *)

Contents == {"c1", "c2"}
H1 == <<"h", "1">>
H2 == <<"h", "2">>
\* calculateMD5: the hex digest of the content read from the file
MD5Sum(content) == IF content = "c1" THEN H1 ELSE H2
\* the entity tag S3 stores for a single PutObject: the quoted digest
PlainETag(content) == <<Quote>> \o MD5Sum(content) \o <<Quote>>
\* the entity tag of an object composed from parts
MultipartETag == <<Quote, "h", "3", Hyphen, "3", Quote>>

KeyA == <<"a">>
KeyB == <<"b">>
KeyTC == <<"t", Slash, "c">>
\* the running executable, when it lies in the synchronised directory
KeyG == <<"g">>
\* the keys of the cycles in which every file and object is chosen freely
CoreKeys == {KeyA, KeyB, KeyTC}
\* further files, for a directory with more files than the channel and the
\* workers hold together
MoreKeys == << <<"u", "1">>, <<"u", "2">>, <<"u", "3">>, <<"u", "4">> >>
\* filepath.Walk visits in lexical order; S3 lists in the same order here
WalkOrder == << KeyA, KeyB, KeyG, KeyTC >> \o MoreKeys
Keys == {WalkOrder[i] : i \in 1..Len(WalkOrder)}
KeyIdx(k) == CHOOSE i \in 1..Len(WalkOrder) : WalkOrder[i] = k

ExecName == <<"g">>


---------------------------------------------------------------------------
(* Change detection: fileChangedOnS3 *)

\* a nil *time.Time
NilTime == -1

\* what HeadObject can answer
HeadNotFound == [status |-> "notfound", ContentLength |-> 0,
                 LastModified |-> NilTime, ETag |-> <<>>]
HeadError == [status |-> "error", ContentLength |-> 0,
              LastModified |-> NilTime, ETag |-> <<>>]
HeadMeta(size, lm, etag) == [status |-> "ok", ContentLength |-> size,
                             LastModified |-> lm, ETag |-> etag]

StatError == [err |-> TRUE, size |-> 0, modTime |-> 0]
StatOf(f) == [err |-> FALSE, size |-> f.size, modTime |-> f.modTime]

HashError == [err |-> TRUE, sum |-> <<>>]
calculateMD5(f) == [err |-> FALSE, sum |-> MD5Sum(f.content)]

\* time.Time.After
After(t, u) == t > u

DetectResult(u, e, h) == [upload |-> u, err |-> e, hashed |-> h]

\* mutant: the local file is inspected before the HEAD answer is looked at
fileChangedOnS3_statFirst(head, stat, md5) ==
    IF stat.err THEN DetectResult(FALSE, "stat", FALSE)
    ELSE IF head.status = "notfound" THEN DetectResult(TRUE, Nil, FALSE)
    ELSE IF head.status = "error" THEN DetectResult(FALSE, "head", FALSE)
    ELSE DetectResult(head.ContentLength # stat.size, Nil, FALSE)

\* mutant: the content hash is compared before the modification times
fileChangedOnS3_hashFirst(head, stat, md5) ==
    IF head.status = "notfound" THEN DetectResult(TRUE, Nil, FALSE)
    ELSE IF head.status = "error" THEN DetectResult(FALSE, "head", FALSE)
    ELSE IF stat.err THEN DetectResult(FALSE, "stat", FALSE)
    ELSE IF head.ContentLength # stat.size THEN DetectResult(TRUE, Nil, FALSE)
    ELSE IF head.LastModified = NilTime THEN DetectResult(TRUE, Nil, FALSE)
    ELSE IF md5.err THEN DetectResult(FALSE, "hash", TRUE)
    ELSE IF md5.sum # Trim(head.ETag, Quote) THEN DetectResult(TRUE, Nil, TRUE)
    ELSE DetectResult(After(stat.modTime, head.LastModified), Nil, TRUE)

\* mutant: every HEAD failure is taken for a missing object
fileChangedOnS3_anyErrorUploads(head, stat, md5) ==
    IF head.status # "ok" THEN DetectResult(TRUE, Nil, FALSE)
    ELSE IF stat.err THEN DetectResult(FALSE, "stat", FALSE)
    ELSE IF head.ContentLength # stat.size THEN DetectResult(TRUE, Nil, FALSE)
    ELSE DetectResult(After(stat.modTime, head.LastModified), Nil, FALSE)

\* mutant: the size is not compared with the multipart threshold
fileChangedOnS3_noThreshold(head, stat, md5) ==
    IF head.status = "notfound" THEN DetectResult(TRUE, Nil, FALSE)
    ELSE IF head.status = "error" THEN DetectResult(FALSE, "head", FALSE)
    ELSE IF stat.err THEN DetectResult(FALSE, "stat", FALSE)
    ELSE IF head.ContentLength # stat.size THEN DetectResult(TRUE, Nil, FALSE)
    ELSE IF head.LastModified = NilTime THEN DetectResult(TRUE, Nil, FALSE)
    ELSE IF ~After(stat.modTime, head.LastModified)
         THEN DetectResult(FALSE, Nil, FALSE)
    ELSE IF md5.err THEN DetectResult(FALSE, "hash", TRUE)
    ELSE LET s3ETag == Trim(head.ETag, Quote)
         IN  IF Contains(s3ETag, Hyphen)
             THEN DetectResult(After(stat.modTime, head.LastModified), Nil, TRUE)
             ELSE DetectResult(md5.sum # s3ETag, Nil, TRUE)

\* mutant: the hash is compared with the ETag as HeadObject gives it, with
\* its quotes
fileChangedOnS3_noTrim(head, stat, md5) ==
    IF head.status = "notfound" THEN DetectResult(TRUE, Nil, FALSE)
    ELSE IF head.status = "error" THEN DetectResult(FALSE, "head", FALSE)
    ELSE IF stat.err THEN DetectResult(FALSE, "stat", FALSE)
    ELSE IF head.ContentLength # stat.size THEN DetectResult(TRUE, Nil, FALSE)
    ELSE IF head.LastModified = NilTime THEN DetectResult(TRUE, Nil, FALSE)
    ELSE IF ~After(stat.modTime, head.LastModified)
         THEN DetectResult(FALSE, Nil, FALSE)
    ELSE IF stat.size > multipartThreshold
         THEN DetectResult(After(stat.modTime, head.LastModified), Nil, FALSE)
    ELSE IF md5.err THEN DetectResult(FALSE, "hash", TRUE)
    ELSE IF Contains(head.ETag, Hyphen)
         THEN DetectResult(After(stat.modTime, head.LastModified), Nil, TRUE)
    ELSE DetectResult(md5.sum # head.ETag, Nil, TRUE)

\* mutant: a local file newer than the object is uploaded without a look
\* at its content
fileChangedOnS3_timeOnly(head, stat, md5) ==
    IF head.status = "notfound" THEN DetectResult(TRUE, Nil, FALSE)
    ELSE IF head.status = "error" THEN DetectResult(FALSE, "head", FALSE)
    ELSE IF stat.err THEN DetectResult(FALSE, "stat", FALSE)
    ELSE IF head.ContentLength # stat.size THEN DetectResult(TRUE, Nil, FALSE)
    ELSE IF head.LastModified = NilTime THEN DetectResult(TRUE, Nil, FALSE)
    ELSE DetectResult(After(stat.modTime, head.LastModified), Nil, FALSE)

\* mutant: the modification times are compared before the sizes
fileChangedOnS3_timeBeforeSize(head, stat, md5) ==
    IF head.status = "notfound" THEN DetectResult(TRUE, Nil, FALSE)
    ELSE IF head.status = "error" THEN DetectResult(FALSE, "head", FALSE)
    ELSE IF stat.err THEN DetectResult(FALSE, "stat", FALSE)
    ELSE IF head.LastModified = NilTime THEN DetectResult(TRUE, Nil, FALSE)
    ELSE IF ~After(stat.modTime, head.LastModified)
         THEN DetectResult(FALSE, Nil, FALSE)
    ELSE IF head.ContentLength # stat.size THEN DetectResult(TRUE, Nil, FALSE)
    ELSE IF stat.size > multipartThreshold
         THEN DetectResult(After(stat.modTime, head.LastModified), Nil, FALSE)
    ELSE IF md5.err THEN DetectResult(FALSE, "hash", TRUE)
    ELSE LET s3ETag == Trim(head.ETag, Quote)
         IN  IF Contains(s3ETag, Hyphen)
             THEN DetectResult(After(stat.modTime, head.LastModified), Nil, TRUE)
             ELSE DetectResult(md5.sum # s3ETag, Nil, TRUE)

\* mutant: the local file is hashed as soon as its sizes agree with the
\* object's
fileChangedOnS3_hashEarly(head, stat, md5) ==
    IF head.status = "notfound" THEN DetectResult(TRUE, Nil, FALSE)
    ELSE IF head.status = "error" THEN DetectResult(FALSE, "head", FALSE)
    ELSE IF stat.err THEN DetectResult(FALSE, "stat", FALSE)
    ELSE IF head.ContentLength # stat.size THEN DetectResult(TRUE, Nil, FALSE)
    ELSE IF head.LastModified = NilTime THEN DetectResult(TRUE, Nil, TRUE)
    ELSE IF ~After(stat.modTime, head.LastModified)
         THEN DetectResult(FALSE, Nil, TRUE)
    ELSE IF stat.size > multipartThreshold
         THEN DetectResult(After(stat.modTime, head.LastModified), Nil, FALSE)
    ELSE IF md5.err THEN DetectResult(FALSE, "hash", TRUE)
    ELSE LET s3ETag == Trim(head.ETag, Quote)
         IN  IF Contains(s3ETag, Hyphen)
             THEN DetectResult(After(stat.modTime, head.LastModified), Nil, TRUE)
             ELSE DetectResult(md5.sum # s3ETag, Nil, TRUE)

\* head: the HeadObject answer; stat: os.Stat of the local path; md5: what
\* calculateMD5 returns if it is called.  hashed tells whether it was called.
fileChangedOnS3(head, stat, md5) ==
    IF head.status = "notfound" THEN DetectResult(TRUE, Nil, FALSE)
    ELSE IF head.status = "error" THEN DetectResult(FALSE, "head", FALSE)
    ELSE IF stat.err THEN DetectResult(FALSE, "stat", FALSE)
    ELSE IF head.ContentLength # stat.size THEN DetectResult(TRUE, Nil, FALSE)
    ELSE IF head.LastModified = NilTime THEN DetectResult(TRUE, Nil, FALSE)
    ELSE IF ~After(stat.modTime, head.LastModified)
         THEN DetectResult(FALSE, Nil, FALSE)
    ELSE IF stat.size > multipartThreshold
         THEN DetectResult(After(stat.modTime, head.LastModified), Nil, FALSE)
    ELSE IF md5.err THEN DetectResult(FALSE, "hash", TRUE)
    ELSE LET s3ETag == Trim(head.ETag, Quote)
         IN  IF Contains(s3ETag, Hyphen)
             THEN DetectResult(After(stat.modTime, head.LastModified), Nil, TRUE)
             ELSE DetectResult(md5.sum # s3ETag, Nil, TRUE)

---------------------------------------------------------------------------
(* Ignore matcher and single-file upload *)

\* mutant: a pattern also matches the paths it is a prefix of
shouldIgnore_prefix(patterns, path) ==
    \E i \in 1..Len(patterns) :
        \/ patterns[i] = Base(path)
        \/ /\ Len(patterns[i]) <= Len(path)
           /\ SubSeq(path, 1, Len(patterns[i])) = patterns[i]

shouldIgnore(patterns, path) ==
    \E i \in 1..Len(patterns) :
        patterns[i] = path \/ patterns[i] = Base(path)

\* the task built by the walk callback (path and relPath follow from s3Key)
uploadTask(k, f) == [s3Key |-> k, fileSize |-> f.size]

\* uploadMultipart: sent tells whether file.Seek and uploader.Upload both
\* succeeded
uploadMultipart(fileSize, sent) ==
    IF sent THEN [n |-> fileSize, err |-> FALSE] ELSE [n |-> 0, err |-> TRUE]

\* mutant: a file of exactly the threshold goes the multipart way
uploadFileS3_atThreshold(task, open, sent) ==
    IF ~open THEN [n |-> 0, err |-> TRUE, multipart |-> FALSE, put |-> FALSE,
                   stored |-> FALSE]
    ELSE IF task.fileSize >= multipartThreshold
         THEN LET r == uploadMultipart(task.fileSize, sent)
              IN  [n |-> r.n, err |-> r.err, multipart |-> TRUE,
                   put |-> FALSE, stored |-> ~r.err]
    ELSE [n |-> IF sent THEN task.fileSize ELSE 0, err |-> ~sent,
          multipart |-> FALSE, put |-> TRUE, stored |-> sent]

\* uploadFileS3 for a task: open is how os.Open ended, sent is how the
\* PutObject (or uploadMultipart for a large file) ended.  multipart and put
\* tell which of the two was called, stored whether the bucket took the
\* object.
uploadFileS3(task, open, sent) ==
    IF ~open THEN [n |-> 0, err |-> TRUE, multipart |-> FALSE, put |-> FALSE,
                   stored |-> FALSE]
    ELSE IF task.fileSize > multipartThreshold
         THEN LET r == uploadMultipart(task.fileSize, sent)
              IN  [n |-> r.n, err |-> r.err, multipart |-> TRUE,
                   put |-> FALSE, stored |-> ~r.err]
    ELSE [n |-> IF sent THEN task.fileSize ELSE 0, err |-> ~sent,
          multipart |-> FALSE, put |-> TRUE, stored |-> sent]

\* the object the bucket holds after a successful upload of file f
StoredObject(f, multipart, clock) ==
    [size |-> f.size, lastModified |-> clock,
     etag |-> IF multipart THEN MultipartETag ELSE PlainETag(f.content)]

---------------------------------------------------------------------------
(* The state before a cycle *)

\* a small local file, and the objects a bucket may hold under its key
FileNew == [size |-> 5, modTime |-> 1, content |-> "c1"]
ObjSynced == [size |-> 5, lastModified |-> 1, etag |-> PlainETag("c1")]
ObjStale == [size |-> 5, lastModified |-> 0, etag |-> PlainETag("c2")]

LocalChoices == {NoFile, FileNew}
RemoteChoices == {NoObj, ObjSynced, ObjStale}
\* main appends the executable's name, loadSyncIgnoreFile the lines of
\* .syncignore
IgnoreChoices == { <<ExecName>>, <<ExecName, <<"c">> >> }

Init ==
    /\ \E f \in [CoreKeys -> LocalChoices] :
          local = [k \in Keys |-> IF k \in CoreKeys THEN f[k] ELSE NoFile]
    /\ \E o \in [CoreKeys -> RemoteChoices] :
          remote = [k \in Keys |-> IF k \in CoreKeys THEN o[k] ELSE NoObj]
    /\ ignorePatterns \in IgnoreChoices
    /\ now = MaxTime
    /\ faulty = Keys
    /\ pc = "idle"
    /\ wi = 1
    /\ pending = NoTask
    /\ walkErr = FALSE
    /\ tasks = <<>>
    /\ closed = FALSE
    /\ wstate = [w \in Workers |-> "none"]
    /\ wtask = [w \in Workers |-> NoTask]
    /\ uploadErrors = <<>>
    /\ localFiles = {}
    /\ marker = 0
    /\ page = <<>>
    /\ lastPage = FALSE
    /\ pi = 1
    /\ result = "none"
    /\ examined = {}
    /\ headErr = {}
    /\ hashErr = {}
    /\ skipped = {}
    /\ enqueued = <<>>
    /\ attempts = [k \in Keys |-> 0]
    /\ failedUp = {}
    /\ lists = 0
    /\ listed = {}
    /\ deletes = [k \in Keys |-> 0]
    /\ deleteErr = {}
    /\ phaseErr = "none"
    /\ dIn = NoInput
    /\ dOut = NoInput
    /\ upOut = NoInput
    /\ mp = NoInput
    /\ ignOut = NoInput
    /\ cycle = 1
    /\ sched = "off"
    /\ prev = NoInput
    /\ errorMutex = 0
    /\ held = [w \in Workers |-> <<>>]
    /\ other = OtherIdle

envVars == << local, ignorePatterns, now, faulty >>
sideVars == << errorMutex, held, other >>
detVars == << dIn, dOut, upOut, mp, ignOut, cycle, sched, prev, sideVars >>
runVars == << ignOut, cycle, sched, prev, sideVars >>
walkVars == << wi, pending, walkErr >>
poolVars == << tasks, closed, wstate, wtask, uploadErrors >>
reconVars == << localFiles, marker, page, lastPage, pi >>
detHist == << examined, headErr, hashErr, skipped >>
upHist == << enqueued, attempts, failedUp >>
reconHist == << lists, listed, deletes, deleteErr >>

---------------------------------------------------------------------------
(* uploadDirectoryToS3: the walk *)

\* the files filepath.Walk reports, in its order
Entries == SelectSeq(WalkOrder, LAMBDA k : local[k] # NoFile)

\* the answer of HeadObject for key k from the bucket's state
HeadOf(k) ==
    IF remote[k] = NoObj THEN HeadNotFound
    ELSE HeadMeta(remote[k].size, remote[k].lastModified, remote[k].etag)

\* syncDirectoryWithS3 is called: the channel and the workers are created
SyncStart ==
    /\ pc = "idle"
    /\ pc' = "walk"
    /\ wi' = 1
    /\ wstate' = [w \in Workers |-> "recv"]
    /\ UNCHANGED << envVars, detVars, remote, pending, walkErr, tasks, closed,
                    wtask, uploadErrors, reconVars, result, detHist, upHist,
                    reconHist, phaseErr >>

\* mutant: the callback logs the I/O error and lets the walk go on
WalkError_continue ==
    /\ pc = "walk"
    /\ walkErr' = TRUE
    /\ phaseErr' = "walk"
    /\ UNCHANGED << envVars, detVars, remote, pc, wi, pending, poolVars,
                    reconVars, result, detHist, upHist, reconHist >>

\* the walk callback is called with err != nil (an I/O error of the walk)
WalkError ==
    /\ pc = "walk"
    /\ walkErr' = TRUE
    /\ phaseErr' = "walk"
    /\ pc' = "close"
    /\ UNCHANGED << envVars, detVars, remote, wi, pending, poolVars, reconVars,
                    result, detHist, upHist, reconHist >>

\* mutant: the callback logs the error of fileChangedOnS3 and returns nil
callbackErr_swallow(d) == FALSE

\* main.go:226: the callback returns the error of fileChangedOnS3, which
\* ends the walk
callbackErr(d) == d.err # Nil

\* mutant: the matcher is asked after the HeadObject
WalkVisit_headFirst ==
    /\ pc = "walk"
    /\ wi <= Len(Entries)
    /\ LET k == Entries[wi] IN
       \E head \in {HeadError, HeadOf(k)} :
       \E md5 \in {HashError, calculateMD5(local[k])} :
       LET d == fileChangedOnS3(head, StatOf(local[k]), md5) IN
       /\ examined' = examined \cup {k}
       /\ headErr' = IF head = HeadError THEN headErr \cup {k} ELSE headErr
       /\ hashErr' = IF d.hashed /\ md5.err THEN hashErr \cup {k} ELSE hashErr
       /\ IF callbackErr(d)
          THEN /\ walkErr' = TRUE
               /\ phaseErr' = "detect"
               /\ pc' = "close"
               /\ UNCHANGED << wi, pending, skipped >>
          ELSE IF shouldIgnore(ignorePatterns, k)
          THEN /\ wi' = wi + 1
               /\ UNCHANGED << pc, pending, walkErr, skipped, phaseErr >>
          ELSE IF d.upload
          THEN /\ pending' = uploadTask(k, local[k])
               /\ pc' = "send"
               /\ UNCHANGED << wi, walkErr, skipped, phaseErr >>
          ELSE /\ skipped' = skipped \cup {k}
               /\ wi' = wi + 1
               /\ UNCHANGED << pc, pending, walkErr, phaseErr >>
    /\ UNCHANGED << envVars, detVars, remote, poolVars, reconVars, result,
                    upHist, reconHist >>

\* the walk callback for the next file
WalkVisit ==
    /\ pc = "walk"
    /\ wi <= Len(Entries)
    /\ LET k == Entries[wi] IN
       IF shouldIgnore(ignorePatterns, k)
       THEN /\ wi' = wi + 1
            /\ UNCHANGED << pc, pending, walkErr, detHist, phaseErr >>
       ELSE \E head \in {HeadError, HeadOf(k)} :
            \E md5 \in {HashError, calculateMD5(local[k])} :
            LET d == fileChangedOnS3(head, StatOf(local[k]), md5) IN
            /\ examined' = examined \cup {k}
            /\ headErr' = IF head = HeadError THEN headErr \cup {k} ELSE headErr
            /\ hashErr' = IF d.hashed /\ md5.err THEN hashErr \cup {k} ELSE hashErr
            /\ IF callbackErr(d)
               THEN /\ walkErr' = TRUE
                    /\ phaseErr' = "detect"
                    /\ pc' = "close"
                    /\ UNCHANGED << wi, pending, skipped >>
               ELSE IF d.upload
               THEN /\ pending' = uploadTask(k, local[k])
                    /\ pc' = "send"
                    /\ UNCHANGED << wi, walkErr, skipped, phaseErr >>
               ELSE /\ skipped' = skipped \cup {k}
                    /\ wi' = wi + 1
                    /\ UNCHANGED << pc, pending, walkErr, phaseErr >>
    /\ UNCHANGED << envVars, detVars, remote, poolVars, reconVars, result,
                    upHist, reconHist >>

\* mutant: a send that finds the channel full gives the task up
Send_drop ==
    /\ pc = "send"
    /\ IF Len(tasks) < tasksCap
       THEN /\ tasks' = Append(tasks, pending)
            /\ enqueued' = Append(enqueued, pending.s3Key)
       ELSE UNCHANGED << tasks, enqueued >>
    /\ pending' = NoTask
    /\ wi' = wi + 1
    /\ pc' = "walk"
    /\ UNCHANGED << envVars, detVars, remote, walkErr, closed, wstate, wtask,
                    uploadErrors, reconVars, result, detHist, attempts,
                    failedUp, reconHist, phaseErr >>

\* tasks <- uploadTask{...}: blocks while the channel is full
Send ==
    /\ pc = "send"
    /\ Len(tasks) < tasksCap
    /\ tasks' = Append(tasks, pending)
    /\ enqueued' = Append(enqueued, pending.s3Key)
    /\ pending' = NoTask
    /\ wi' = wi + 1
    /\ pc' = "walk"
    /\ UNCHANGED << envVars, detVars, remote, walkErr, closed, wstate, wtask,
                    uploadErrors, reconVars, result, detHist, attempts,
                    failedUp, reconHist, phaseErr >>

\* filepath.Walk has visited everything and returns nil
WalkReturn ==
    /\ pc = "walk"
    /\ wi > Len(Entries)
    /\ pc' = "close"
    /\ UNCHANGED << envVars, detVars, remote, walkVars, poolVars, reconVars,
                    result, detHist, upHist, reconHist, phaseErr >>

\* mutant: the channel is closed only when the walk returned nil
CloseTasks_onSuccess ==
    /\ pc = "close"
    /\ closed' = ~walkErr
    /\ pc' = "wait"
    /\ UNCHANGED << envVars, detVars, remote, walkVars, tasks, wstate, wtask,
                    uploadErrors, reconVars, result, detHist, upHist,
                    reconHist, phaseErr >>

\* close(tasks)
CloseTasks ==
    /\ pc = "close"
    /\ closed' = TRUE
    /\ pc' = "wait"
    /\ UNCHANGED << envVars, detVars, remote, walkVars, tasks, wstate, wtask,
                    uploadErrors, reconVars, result, detHist, upHist,
                    reconHist, phaseErr >>

---------------------------------------------------------------------------
(* uploadDirectoryToS3: the workers *)

\* for task := range tasks: a task is received
WorkerTake(w) ==
    /\ wstate[w] = "recv"
    /\ tasks # <<>>
    /\ wtask' = [wtask EXCEPT ![w] = Head(tasks)]
    /\ tasks' = Tail(tasks)
    /\ wstate' = [wstate EXCEPT ![w] = "upload"]
    /\ UNCHANGED << envVars, detVars, remote, pc, walkVars, closed,
                    uploadErrors, reconVars, result, detHist, upHist,
                    reconHist, phaseErr >>

\* mutant: the first failed upload cancels the tasks still waiting
WorkerUpload_cancel(w) ==
    /\ wstate[w] = "upload"
    /\ \E open \in BOOLEAN, sent \in BOOLEAN :
       LET t == wtask[w]
           r == uploadFileS3(t, open, sent)
       IN  /\ r.err => t.s3Key \in faulty
           /\ attempts' = [attempts EXCEPT ![t.s3Key] = @ + 1]
           /\ IF r.err
              THEN /\ uploadErrors' = Append(uploadErrors, t.s3Key)
                   /\ failedUp' = failedUp \cup {t.s3Key}
                   /\ tasks' = <<>>
                   /\ UNCHANGED remote
              ELSE /\ remote' = [remote EXCEPT ![t.s3Key] =
                                   StoredObject(local[t.s3Key], r.multipart, now)]
                   /\ UNCHANGED << uploadErrors, failedUp, tasks >>
    /\ wstate' = [wstate EXCEPT ![w] = "recv"]
    /\ wtask' = [wtask EXCEPT ![w] = NoTask]
    /\ UNCHANGED << envVars, detVars, pc, walkVars, closed, reconVars,
                    result, detHist, enqueued, reconHist, phaseErr >>

\* uploadFileS3 returns; a failure is appended to uploadErrors under the
\* mutex and the loop goes on
WorkerUpload(w) ==
    /\ wstate[w] = "upload"
    /\ \E open \in BOOLEAN, sent \in BOOLEAN :
       LET t == wtask[w]
           r == uploadFileS3(t, open, sent)
       IN  /\ r.err => t.s3Key \in faulty
           /\ attempts' = [attempts EXCEPT ![t.s3Key] = @ + 1]
           /\ IF r.err
              THEN /\ uploadErrors' = Append(uploadErrors, t.s3Key)
                   /\ failedUp' = failedUp \cup {t.s3Key}
                   /\ UNCHANGED remote
              ELSE /\ remote' = [remote EXCEPT ![t.s3Key] =
                                   StoredObject(local[t.s3Key], r.multipart, now)]
                   /\ UNCHANGED << uploadErrors, failedUp >>
    /\ wstate' = [wstate EXCEPT ![w] = "recv"]
    /\ wtask' = [wtask EXCEPT ![w] = NoTask]
    /\ UNCHANGED << envVars, detVars, pc, walkVars, tasks, closed, reconVars,
                    result, detHist, enqueued, reconHist, phaseErr >>

\* mutant: a worker leaves its loop as soon as the channel is closed
WorkerExit_early(w) ==
    /\ wstate[w] = "recv"
    /\ closed
    /\ wstate' = [wstate EXCEPT ![w] = "exited"]
    /\ UNCHANGED << envVars, detVars, remote, pc, walkVars, tasks, closed,
                    wtask, uploadErrors, reconVars, result, detHist, upHist,
                    reconHist, phaseErr >>

\* the range loop ends on the closed, drained channel; wg.Done
WorkerExit(w) ==
    /\ wstate[w] = "recv"
    /\ closed
    /\ tasks = <<>>
    /\ wstate' = [wstate EXCEPT ![w] = "exited"]
    /\ UNCHANGED << envVars, detVars, remote, pc, walkVars, tasks, closed,
                    wtask, uploadErrors, reconVars, result, detHist, upHist,
                    reconHist, phaseErr >>

\* mutant: the join is left out
WorkersJoined_noWait == TRUE

\* wg.Wait returns
WorkersJoined == \A w \in Workers : wstate[w] = "exited"

\* mutant: the collected upload errors are not returned
uploadDirectoryToS3_ignoreUploadErrors(werr, errs) ==
    IF werr THEN "err" ELSE "ok"

\* mutant: the error of the walk is not returned
uploadDirectoryToS3_dropWalkErr(werr, errs) ==
    IF Len(errs) > 0 THEN "err" ELSE "ok"

\* what uploadDirectoryToS3 returns after the join
uploadDirectoryToS3(werr, errs) ==
    IF werr THEN "err" ELSE IF Len(errs) > 0 THEN "err" ELSE "ok"

\* mutant: the collected upload failures are returned whenever there are any
returnedError_uploadsFirst(werr, cause, errs) ==
    IF Len(errs) > 0 THEN "upload" ELSE cause

\* which error uploadDirectoryToS3 returns: the error of the walk, of cause
\* "walk" or "detect", and only without one the collected upload failures
returnedError(werr, cause, errs) ==
    IF werr THEN cause ELSE "upload"

\* uploadDirectoryToS3 returns and syncDirectoryWithS3 goes on to the
\* reconciliation only when err is nil
UploadReturn ==
    /\ pc = "wait"
    /\ WorkersJoined
    /\ IF uploadDirectoryToS3(walkErr, uploadErrors) = "err"
       THEN /\ result' = "err"
            /\ phaseErr' = returnedError(walkErr, phaseErr, uploadErrors)
            /\ pc' = "done"
       ELSE /\ pc' = "reconWalk"
            /\ UNCHANGED << result, phaseErr >>
    /\ UNCHANGED << envVars, detVars, remote, walkVars, poolVars, reconVars,
                    detHist, upHist, reconHist >>

---------------------------------------------------------------------------
(* deleteRemovedFilesFromS3 *)

\* mutant: a failed DeleteObject makes the pass fail
deleteRemovedFilesFromS3_failOnDelete(walkFailed, listFailed, deleteFailed) ==
    IF walkFailed \/ listFailed \/ deleteFailed THEN "err" ELSE "ok"

\* mutant: the error of ListObjectsV2Pages is logged and not returned
deleteRemovedFilesFromS3_ignoreListErr(walkFailed, listFailed, deleteFailed) ==
    IF walkFailed THEN "err" ELSE "ok"

\* what deleteRemovedFilesFromS3 returns: the error of its walk or of the
\* listing; the result of a DeleteObject is only used for the log line
deleteRemovedFilesFromS3(walkFailed, listFailed, deleteFailed) ==
    IF walkFailed THEN "err" ELSE IF listFailed THEN "err" ELSE "ok"

\* mutant: the reconciler's walk leaves out the files the matcher ignores
ReconWalk_ignoring ==
    /\ pc = "reconWalk"
    /\ \/ /\ localFiles' = {Entries[i] : i \in 1..Len(Entries)} \
                           {k \in Keys : shouldIgnore(ignorePatterns, k)}
          /\ pc' = "list"
          /\ UNCHANGED << result, phaseErr >>
       \/ \E n \in 0..Len(Entries) :
          /\ localFiles' = {Entries[i] : i \in 1..n}
          /\ result' = deleteRemovedFilesFromS3(TRUE, FALSE, FALSE)
          /\ phaseErr' = "reconWalk"
          /\ pc' = "done"
    /\ marker' = 0
    /\ UNCHANGED << envVars, detVars, remote, walkVars, poolVars, page,
                    lastPage, pi, detHist, upHist, reconHist >>

\* mutant: the error of the reconciler's walk is logged and the pass goes on
ReconWalk_continue ==
    /\ pc = "reconWalk"
    /\ \E n \in 0..Len(Entries) :
          localFiles' = {Entries[i] : i \in 1..n}
    /\ pc' = "list"
    /\ marker' = 0
    /\ UNCHANGED << envVars, detVars, remote, walkVars, poolVars, page,
                    lastPage, pi, result, detHist, upHist, reconHist,
                    phaseErr >>

\* the reconciler's own walk: every file, the ignore matcher is not asked.
\* It fails with an I/O error after n files, or returns the whole key set.
ReconWalk ==
    /\ pc = "reconWalk"
    /\ \/ /\ localFiles' = {Entries[i] : i \in 1..Len(Entries)}
          /\ pc' = "list"
          /\ UNCHANGED << result, phaseErr >>
       \/ \E n \in 0..Len(Entries) :
          /\ localFiles' = {Entries[i] : i \in 1..n}
          /\ result' = deleteRemovedFilesFromS3(TRUE, FALSE, FALSE)
          /\ phaseErr' = "reconWalk"
          /\ pc' = "done"
    /\ marker' = 0
    /\ UNCHANGED << envVars, detVars, remote, walkVars, poolVars, page,
                    lastPage, pi, detHist, upHist, reconHist >>

\* mutant: every page of the listing starts one key late
RemoteKeysAfter_oneLate(m) ==
    SelectSeq(WalkOrder, LAMBDA k : remote[k] # NoObj /\ KeyIdx(k) > m + 1)

\* the keys the bucket holds after the m-th key of the key order
RemoteKeysAfter(m) ==
    SelectSeq(WalkOrder, LAMBDA k : remote[k] # NoObj /\ KeyIdx(k) > m)

\* ListObjectsV2Pages requests the next page: the request fails, or the
\* page callback is called with up to PageSize keys
ListPage ==
    /\ pc = "list"
    /\ lists' = lists + 1
    /\ \/ /\ result' = deleteRemovedFilesFromS3(FALSE, TRUE, deleteErr # {})
          /\ phaseErr' = "list"
          /\ pc' = "done"
          /\ UNCHANGED << marker, page, lastPage, pi, listed >>
       \/ LET rest == RemoteKeysAfter(marker)
              n == IF Len(rest) < PageSize THEN Len(rest) ELSE PageSize
              got == SubSeq(rest, 1, n)
          IN  /\ page' = got
              /\ lastPage' = (Len(rest) <= PageSize)
              /\ marker' = IF n = 0 THEN marker ELSE KeyIdx(got[n])
              /\ listed' = listed \cup {got[i] : i \in 1..n}
              /\ pi' = 1
              /\ pc' = "page"
              /\ UNCHANGED << result, phaseErr >>
    /\ UNCHANGED << envVars, detVars, remote, walkVars, poolVars, localFiles,
                    detHist, upHist, deletes, deleteErr >>

\* mutant: the lookup never finds the key
exists_never(files, key) == FALSE

\* the test of main.go:284 on the map built by the walk
exists(files, key) == key \in files

\* mutant: a failed DeleteObject ends the page callback and the listing
ReconObject_stopOnError ==
    /\ pc = "page"
    /\ pi <= Len(page)
    /\ LET k == page[pi] IN
       IF exists(localFiles, k)
       THEN /\ pi' = pi + 1
            /\ UNCHANGED << remote, deletes, deleteErr, lastPage >>
       ELSE \E ok \in BOOLEAN :
            /\ deletes' = [deletes EXCEPT ![k] = @ + 1]
            /\ remote' = IF ok THEN [remote EXCEPT ![k] = NoObj] ELSE remote
            /\ deleteErr' = IF ok THEN deleteErr ELSE deleteErr \cup {k}
            /\ pi' = IF ok THEN pi + 1 ELSE Len(page) + 1
            /\ lastPage' = IF ok THEN lastPage ELSE TRUE
    /\ UNCHANGED << envVars, detVars, pc, walkVars, poolVars, localFiles,
                    marker, page, result, detHist, upHist, lists,
                    listed, phaseErr >>

\* the page callback's loop body for the next object of the page: a key
\* without a local file is deleted, and a failed DeleteObject is ignored
ReconObject ==
    /\ pc = "page"
    /\ pi <= Len(page)
    /\ LET k == page[pi] IN
       IF exists(localFiles, k)
       THEN UNCHANGED << remote, deletes, deleteErr >>
       ELSE \E ok \in BOOLEAN :
            /\ deletes' = [deletes EXCEPT ![k] = @ + 1]
            /\ remote' = IF ok THEN [remote EXCEPT ![k] = NoObj] ELSE remote
            /\ deleteErr' = IF ok THEN deleteErr ELSE deleteErr \cup {k}
    /\ pi' = pi + 1
    /\ UNCHANGED << envVars, detVars, pc, walkVars, poolVars, localFiles,
                    marker, page, lastPage, result, detHist, upHist, lists,
                    listed, phaseErr >>

\* mutant: the page callback returns false, which ends the listing
PageReturn_stopEarly ==
    /\ pc = "page"
    /\ pi > Len(page)
    /\ result' = deleteRemovedFilesFromS3(FALSE, FALSE, deleteErr # {})
    /\ pc' = "done"
    /\ UNCHANGED << envVars, detVars, remote, walkVars, poolVars, reconVars,
                    detHist, upHist, reconHist, phaseErr >>

\* the page callback returns true; after the last page ListObjectsV2Pages
\* returns nil and so does deleteRemovedFilesFromS3
PageReturn ==
    /\ pc = "page"
    /\ pi > Len(page)
    /\ IF lastPage
       THEN /\ result' = deleteRemovedFilesFromS3(FALSE, FALSE, deleteErr # {})
            /\ pc' = "done"
       ELSE /\ pc' = "list"
            /\ UNCHANGED result
    /\ UNCHANGED << envVars, detVars, remote, walkVars, poolVars, reconVars,
                    detHist, upHist, reconHist, phaseErr >>

---------------------------------------------------------------------------
(* One cycle *)

Next ==
    \/ SyncStart
    \/ WalkError
    \/ WalkVisit
    \/ Send
    \/ WalkReturn
    \/ CloseTasks
    \/ \E w \in Workers : WorkerTake(w)
    \/ \E w \in Workers : WorkerUpload(w)
    \/ \E w \in Workers : WorkerExit(w)
    \/ UploadReturn
    \/ ReconWalk
    \/ ListPage
    \/ ReconObject
    \/ PageReturn

Spec == Init /\ [][Next]_vars

---------------------------------------------------------------------------
(* Change detection on its own: fileChangedOnS3 applied to every input *)

Sizes == {5, 12, multipartThreshold, multipartThreshold + 1}
ETags == {PlainETag("c1"), PlainETag("c2"), H1, MultipartETag}
HeadAnswers ==
    {HeadNotFound, HeadError} \cup
    {HeadMeta(sz, lm, e) : sz \in Sizes, lm \in Times \cup {NilTime}, e \in ETags}
StatAnswers ==
    {StatError} \cup
    {[err |-> FALSE, size |-> sz, modTime |-> t] : sz \in Sizes, t \in Times}
HashAnswers == {HashError} \cup {[err |-> FALSE, sum |-> MD5Sum(c)] : c \in Contents}

DetectInit ==
    /\ dIn \in [head : HeadAnswers, stat : StatAnswers, md5 : HashAnswers]
    /\ dOut = NoInput
    /\ upOut = NoInput
    /\ mp = NoInput
    /\ ignOut = NoInput
    /\ cycle = 1
    /\ sched = "off"
    /\ prev = NoInput
    /\ errorMutex = 0
    /\ held = [w \in Workers |-> <<>>]
    /\ other = OtherIdle
    /\ local = [k \in Keys |-> NoFile]
    /\ remote = [k \in Keys |-> NoObj]
    /\ ignorePatterns = <<ExecName>>
    /\ now = MaxTime
    /\ faulty = Keys
    /\ pc = "detect"
    /\ wi = 1
    /\ pending = NoTask
    /\ walkErr = FALSE
    /\ tasks = <<>>
    /\ closed = FALSE
    /\ wstate = [w \in Workers |-> "none"]
    /\ wtask = [w \in Workers |-> NoTask]
    /\ uploadErrors = <<>>
    /\ localFiles = {}
    /\ marker = 0
    /\ page = <<>>
    /\ lastPage = FALSE
    /\ pi = 1
    /\ result = "none"
    /\ examined = {}
    /\ headErr = {}
    /\ hashErr = {}
    /\ skipped = {}
    /\ enqueued = <<>>
    /\ attempts = [k \in Keys |-> 0]
    /\ failedUp = {}
    /\ lists = 0
    /\ listed = {}
    /\ deletes = [k \in Keys |-> 0]
    /\ deleteErr = {}
    /\ phaseErr = "none"

Detect ==
    /\ pc = "detect"
    /\ dOut = NoInput
    /\ dOut' = fileChangedOnS3(dIn.head, dIn.stat, dIn.md5)
    /\ UNCHANGED << envVars, remote, pc, walkVars, poolVars, reconVars, result,
                    detHist, upHist, reconHist, phaseErr, dIn, upOut, mp,
                    runVars >>

DetectNext == Detect

SpecDetect == DetectInit /\ [][DetectNext]_vars

---------------------------------------------------------------------------
(* Properties *)

Range(q) == {q[i] : i \in 1..Len(q)}
InRecon == pc \in {"reconWalk", "list", "page"}
NoDeletes == \A k \in Keys : deletes[k] = 0

\* C1: in a reconciliation pass a DELETE is issued only for a listed key
\* that is absent from the key set built by the pass's walk, at most once
\* per key and never for a key that has a local file; when every page was
\* delivered, each listed key without a local file got exactly one DELETE.
C1_DeletesAreRemoteMinusLocal ==
    /\ \A k \in Keys :
          deletes[k] > 0 =>
             /\ deletes[k] = 1
             /\ k \in listed
             /\ k \notin localFiles
             /\ local[k] = NoFile
    /\ (pc = "done" /\ result = "ok") =>
          /\ localFiles = {k \in Keys : local[k] # NoFile}
          /\ \A k \in Keys :
                deletes[k] = IF k \in listed /\ k \notin localFiles THEN 1 ELSE 0

\* a pass over two pages that deleted one key and kept another
C1_Witness ==
    /\ pc = "done"
    /\ result = "ok"
    /\ lists = 2
    /\ \E k \in Keys : deletes[k] = 1 /\ local[k] = NoFile
    /\ \E k \in Keys : k \in listed /\ k \in localFiles /\ deletes[k] = 0

\* C2: whenever the reconciliation pass is running or has issued a LIST or a
\* DELETE, the task channel is closed and empty, the walk holds no task and
\* every upload worker has exited.
C2_ReconOnlyAfterJoin ==
    (InRecon \/ lists > 0 \/ ~NoDeletes) =>
       /\ closed
       /\ tasks = <<>>
       /\ pending = NoTask
       /\ \A w \in Workers : wstate[w] = "exited"

\* a cycle that uploaded two files and then listed and deleted
C2_Witness ==
    /\ Len(enqueued) >= 2
    /\ lists > 0
    /\ ~NoDeletes

\* C3: when HEAD answers not-found, fileChangedOnS3 returns upload = true and
\* no error, whatever os.Stat and the hashing of the local file would give.
C3_NotFoundUploads ==
    (dOut # NoInput /\ dIn.head.status = "notfound") =>
       (dOut.upload /\ dOut.err = Nil)

\* not-found for a local file that cannot be inspected
C3_Witness ==
    /\ dOut # NoInput
    /\ dIn.head.status = "notfound"
    /\ dIn.stat.err
    /\ dOut.upload

\* C4: with HEAD metadata whose size equals the local size and a local
\* modification time not after the remote lastModified, fileChangedOnS3
\* returns upload = false and no error, whatever the content hash, the remote
\* ETag and the size relative to the multipart threshold.
C4_SameSizeNotNewerSkips ==
    (/\ dOut # NoInput
     /\ dIn.head.status = "ok"
     /\ ~dIn.stat.err
     /\ dIn.head.ContentLength = dIn.stat.size
     /\ dIn.head.LastModified # NilTime
     /\ ~After(dIn.stat.modTime, dIn.head.LastModified))
    => (~dOut.upload /\ dOut.err = Nil)

\* skipped although the local content hashes to something else than the ETag
C4_Witness ==
    /\ dOut # NoInput
    /\ dIn.head.status = "ok"
    /\ ~dIn.stat.err
    /\ dIn.head.ContentLength = dIn.stat.size
    /\ dIn.stat.size <= multipartThreshold
    /\ dIn.head.LastModified # NilTime
    /\ dIn.stat.modTime = dIn.head.LastModified
    /\ ~dIn.md5.err
    /\ dIn.md5.sum # Trim(dIn.head.ETag, Quote)
    /\ ~dOut.upload

\* C5: a file whose HEAD failed with something other than not-found makes
\* the walk end with an error; it is neither sent to the workers nor
\* uploaded nor reported as synchronised, and the cycle does not succeed.
C5_HeadErrorIsAnError ==
    \A k \in headErr :
       /\ walkErr
       /\ phaseErr = "detect"
       /\ k \notin Range(enqueued)
       /\ pending = NoTask
       /\ attempts[k] = 0
       /\ k \notin skipped
       /\ result # "ok"

\* the HEAD of a file failed after another file had been queued
C5_Witness ==
    /\ headErr # {}
    /\ Len(enqueued) >= 1
    /\ pc = "done"
    /\ result = "err"

\* the files the walk reports after key k
LaterEntries(k) == {j \in Keys : KeyIdx(j) > KeyIdx(k) /\ local[j] # NoFile}
DetectFailed == headErr \cup hashErr
ReconRan == lists > 0 \/ phaseErr = "reconWalk"

\* C6 as stated: after a change-detection failure of one file, the files
\* that come after it in the walk are still examined.
C6_Original ==
    (pc = "done" /\ DetectFailed # {}) =>
       \A k \in DetectFailed : \A j \in LaterEntries(k) :
          ~shouldIgnore(ignorePatterns, j) => j \in examined

\* C6, amended: a change-detection failure of one file (HEAD failing with
\* something other than not-found, or the local file unreadable while
\* hashing) ends the walk: no file after it is examined, queued or uploaded
\* in that cycle, and the cycle returns the error without reconciliation.
C6_DetectFailureEndsWalk ==
    \A k \in DetectFailed :
       /\ walkErr
       /\ pc \in {"close", "wait", "done"}
       /\ \A j \in LaterEntries(k) :
             /\ j \notin examined
             /\ j \notin Range(enqueued)
             /\ attempts[j] = 0
       /\ ~ReconRan
       /\ NoDeletes
       /\ pc = "done" => result = "err"

\* hashing of a file failed while a new file comes after it in the walk
C6_Witness ==
    /\ pc = "done"
    /\ \E k \in hashErr : \E j \in LaterEntries(k) :
          /\ ~shouldIgnore(ignorePatterns, j)
          /\ remote[j] = NoObj
    /\ Len(enqueued) >= 1

\* C7 as stated: after uploads failed (the walk itself succeeded) the cycle
\* still runs the reconciliation pass.
C7_Original ==
    (pc = "done" /\ failedUp # {} /\ ~walkErr) => ReconRan

\* C7, amended: a failed upload does not stop the cycle's other uploads, but
\* it makes uploadDirectoryToS3 return an error: the cycle reports failure
\* and the reconciliation pass is skipped (no LIST, no DELETE).
C7_UploadFailureSkipsRecon ==
    failedUp # {} =>
       /\ ~InRecon
       /\ ~ReconRan
       /\ NoDeletes
       /\ pc = "done" =>
             /\ result = "err"
             /\ \A k \in Range(enqueued) : attempts[k] = 1

\* one upload failed, another succeeded, and a remote key without a local
\* file is still in the bucket when the cycle ends
C7_Witness ==
    /\ pc = "done"
    /\ ~walkErr
    /\ failedUp # {}
    /\ \E k \in Range(enqueued) : k \notin failedUp
    /\ \E k \in Keys : local[k] = NoFile /\ remote[k] # NoObj

\* C8: once the workers have been joined, every task that was put on the
\* queue has been attempted by a worker, whichever uploads failed.
C8_EveryQueuedTaskAttempted ==
    (InRecon \/ pc = "done") =>
       \A k \in Range(enqueued) : attempts[k] >= 1

\* three tasks, the first one failed and the last one was uploaded
C8_Witness ==
    /\ pc = "done"
    /\ Len(enqueued) = 3
    /\ enqueued[1] \in failedUp
    /\ enqueued[3] \notin failedUp
    /\ attempts[enqueued[3]] = 1

\* C9 as stated: when the walk of the upload phase fails with an I/O error,
\* no file found before the failure is uploaded.
C9_Original ==
    phaseErr = "walk" => \A k \in Keys : attempts[k] = 0

\* C9, amended: when the walk of the upload phase fails with an I/O error,
\* no further file is examined or queued, the cycle reports failure and runs
\* no reconciliation, but every task queued before the failure is still
\* uploaded before uploadDirectoryToS3 returns.
C9_WalkErrorStopsProduction ==
    phaseErr = "walk" =>
       /\ walkErr
       /\ pc \in {"close", "wait", "done"}
       /\ pending = NoTask
       /\ ~ReconRan
       /\ NoDeletes
       /\ pc = "done" =>
             /\ result = "err"
             /\ \A k \in Range(enqueued) : attempts[k] = 1

\* the walk failed after a file was queued, and that file reached the bucket
C9_Witness ==
    /\ pc = "done"
    /\ phaseErr = "walk"
    /\ \E k \in Range(enqueued) :
          /\ k \notin failedUp
          /\ remote[k] = StoredObject(local[k], FALSE, now)
    /\ \E j \in Keys : local[j] # NoFile /\ j \notin examined
                       /\ ~shouldIgnore(ignorePatterns, j)

\* C10: a finished cycle reports success exactly when the upload-phase walk
\* had no I/O error, no change detection failed, no upload failed, the
\* reconciler's walk succeeded and no LIST request failed; failed DELETEs do
\* not count.
C10_SuccessIff ==
    pc = "done" =>
       /\ result \in {"ok", "err"}
       /\ result = "ok" <=>
             /\ phaseErr \notin {"walk", "reconWalk", "list"}
             /\ DetectFailed = {}
             /\ failedUp = {}

\* success although a DELETE failed, after at least one upload
C10_Witness ==
    /\ pc = "done"
    /\ result = "ok"
    /\ deleteErr # {}
    /\ Len(enqueued) >= 1


\* C14: for a local file larger than the multipart threshold,
\* fileChangedOnS3 never calls calculateMD5, whatever HEAD answers.
C14_LargeFileNeverHashed ==
    (/\ dOut # NoInput
     /\ ~dIn.stat.err
     /\ dIn.stat.size > multipartThreshold)
    => ~dOut.hashed

\* a large file of the remote size, newer than the remote object, with a
\* plain ETag: decided by the times alone
C14_Witness ==
    /\ dOut # NoInput
    /\ dIn.head.status = "ok"
    /\ ~dIn.stat.err
    /\ dIn.stat.size > multipartThreshold
    /\ dIn.head.ContentLength = dIn.stat.size
    /\ dIn.head.LastModified # NilTime
    /\ After(dIn.stat.modTime, dIn.head.LastModified)
    /\ ~Contains(dIn.head.ETag, Hyphen)
    /\ ~dIn.md5.err
    /\ dOut.upload
    /\ ~dOut.hashed

\* the case in which the hash decides: HEAD metadata of the local size, a
\* local file not above the threshold and strictly newer than the remote
\* object, a readable file and an ETag without a hyphen
HashDecides ==
    /\ dOut # NoInput
    /\ dIn.head.status = "ok"
    /\ ~dIn.stat.err
    /\ dIn.stat.size <= multipartThreshold
    /\ dIn.head.ContentLength = dIn.stat.size
    /\ dIn.head.LastModified # NilTime
    /\ After(dIn.stat.modTime, dIn.head.LastModified)
    /\ ~dIn.md5.err
    /\ ~Contains(dIn.head.ETag, Hyphen)

\* the ETag between its quotes, for the ETags of the model
Unquoted(etag) ==
    IF etag # <<>> /\ Head(etag) = Quote
    THEN SubSeq(etag, 2, Len(etag) - 1) ELSE etag

\* C15: when the hash decides, fileChangedOnS3 returns upload exactly when
\* the local digest differs from the remote ETag without its quotes.
C15_HashComparisonDecides ==
    HashDecides =>
       /\ dOut.err = Nil
       /\ dOut.upload <=> (dIn.md5.sum # Unquoted(dIn.head.ETag))

\* a newer local file whose digest equals the quoted ETag is skipped
C15_Witness ==
    /\ HashDecides
    /\ Head(dIn.head.ETag) = Quote
    /\ dIn.md5.sum = Unquoted(dIn.head.ETag)
    /\ ~dOut.upload


\* the pass listed the bucket to its end
ReconCompleted == pc = "done" /\ lists > 0 /\ phaseErr = "none"

\* C19: a failed DeleteObject does not end the pass: when the listing has
\* run to its end, every remote key without a local file was listed and had
\* its DeleteObject attempted once, a key is still in the bucket only if it
\* has a local file or its DeleteObject failed, and
\* deleteRemovedFilesFromS3 returned nil.
C19_DeleteFailureDoesNotAbort ==
    ReconCompleted =>
       /\ result = "ok"
       /\ \A k \in listed \ localFiles : deletes[k] = 1
       /\ \A k \in Keys \ localFiles :
             remote[k] # NoObj => k \in listed /\ k \in deleteErr

\* the DeleteObject of a fails; b on the same page and t/c on the next
\* page are deleted all the same
C19_Witness ==
    /\ ReconCompleted
    /\ result = "ok"
    /\ lists = 2
    /\ deleteErr = {KeyA}
    /\ remote[KeyA] # NoObj
    /\ deletes[KeyB] = 1 /\ remote[KeyB] = NoObj
    /\ deletes[KeyTC] = 1 /\ remote[KeyTC] = NoObj

\* C20: when ListObjectsV2Pages fails, deleteRemovedFilesFromS3 returns an
\* error, the cycle fails, and every object uploaded in the cycle is in the
\* bucket as it was stored.
C20_ListFailureKeepsUploads ==
    (pc = "done" /\ phaseErr = "list") =>
       /\ result = "err"
       /\ failedUp = {}
       /\ \A k \in Range(enqueued) :
             /\ attempts[k] = 1
             /\ remote[k] = StoredObject(local[k], FALSE, now)

\* a was uploaded, the first page was processed and b deleted, then the
\* request for the second page failed
C20_Witness ==
    /\ pc = "done"
    /\ phaseErr = "list"
    /\ result = "err"
    /\ lists = 2
    /\ KeyA \in Range(enqueued)
    /\ remote[KeyA] = StoredObject(local[KeyA], FALSE, now)
    /\ deletes[KeyB] = 1


---------------------------------------------------------------------------
(* One upload and the change detection that follows it *)

\* the variables of a cycle, at rest
Quiet ==
    /\ wi = 1
    /\ pending = NoTask
    /\ walkErr = FALSE
    /\ tasks = <<>>
    /\ closed = FALSE
    /\ wstate = [w \in Workers |-> "none"]
    /\ wtask = [w \in Workers |-> NoTask]
    /\ uploadErrors = <<>>
    /\ localFiles = {}
    /\ marker = 0
    /\ page = <<>>
    /\ lastPage = FALSE
    /\ pi = 1
    /\ result = "none"
    /\ examined = {}
    /\ headErr = {}
    /\ hashErr = {}
    /\ skipped = {}
    /\ enqueued = <<>>
    /\ attempts = [k \in Keys |-> 0]
    /\ failedUp = {}
    /\ lists = 0
    /\ listed = {}
    /\ deletes = [k \in Keys |-> 0]
    /\ deleteErr = {}
    /\ phaseErr = "none"

cycleVars == << ignorePatterns, walkVars, poolVars, reconVars, result,
                detHist, upHist, reconHist, phaseErr >>

\* an object left by a multipart upload
ObjMultipart == [size |-> 5, lastModified |-> 0, etag |-> MultipartETag]

\* the files uploaded: below, at and above the threshold, of any
\* modification time, also one after the bucket's clock
PutFiles ==
    [size : {5, multipartThreshold, multipartThreshold + 1},
     modTime : Times, content : Contents]

PutInit ==
    /\ \E f \in PutFiles, o \in RemoteChoices \cup {ObjMultipart} :
          /\ local = [k \in Keys |-> IF k = KeyA THEN f ELSE NoFile]
          /\ remote = [k \in Keys |-> IF k = KeyA THEN o ELSE NoObj]
    /\ now \in Times
    /\ faulty = Keys
    /\ pc = "put"
    /\ dIn = NoInput
    /\ dOut = NoInput
    /\ upOut = NoInput
    /\ mp = NoInput
    /\ ignOut = NoInput
    /\ cycle = 1
    /\ sched = "off"
    /\ prev = NoInput
    /\ errorMutex = 0
    /\ held = [w \in Workers |-> <<>>]
    /\ other = OtherIdle
    /\ ignorePatterns = <<ExecName>>
    /\ Quiet

\* a worker's call of uploadFileS3 for the task of a
Put ==
    /\ pc = "put"
    /\ \E open \in BOOLEAN, sent \in BOOLEAN :
       LET t == uploadTask(KeyA, local[KeyA])
           r == uploadFileS3(t, open, sent)
       IN  /\ upOut' = [task |-> t, open |-> open, r |-> r]
           /\ remote' = IF r.stored
                        THEN [remote EXCEPT ![KeyA] =
                                StoredObject(local[KeyA], r.multipart, now)]
                        ELSE remote
    /\ pc' = "putDone"
    /\ UNCHANGED << local, now, faulty, cycleVars, dIn, dOut, mp, runVars >>

\* the walk callback's call of fileChangedOnS3 for a in the next cycle,
\* the local file untouched
Recheck ==
    /\ pc = "putDone"
    /\ \E head \in {HeadError, HeadOf(KeyA)} :
       \E md5 \in {HashError, calculateMD5(local[KeyA])} :
          /\ dIn' = [head |-> head, stat |-> StatOf(local[KeyA]), md5 |-> md5]
          /\ dOut' = fileChangedOnS3(head, StatOf(local[KeyA]), md5)
    /\ pc' = "rechecked"
    /\ UNCHANGED << local, remote, now, faulty, cycleVars, upOut, mp,
                    runVars >>

PutNext == Put \/ Recheck

SpecPut == PutInit /\ [][PutNext]_vars

\* C13: after uploadFileS3 stored a file with one PutObject, the next
\* fileChangedOnS3 for its key does not ask for an upload, and returns no
\* error when HeadObject and the hashing succeed.
C13_NoUploadAfterPut ==
    (pc = "rechecked" /\ upOut.r.put /\ ~upOut.r.err) =>
       /\ ~dOut.upload
       /\ (dIn.head.status = "ok" /\ ~dIn.md5.err) => dOut.err = Nil

\* the local modification time is after the time of the upload, so the
\* decision falls to the hash, which equals the stored ETag
C13_Witness ==
    /\ pc = "rechecked"
    /\ upOut.r.put /\ ~upOut.r.err
    /\ dIn.head.status = "ok"
    /\ After(dIn.stat.modTime, dIn.head.LastModified)
    /\ dOut.hashed
    /\ ~dOut.upload
    /\ dOut.err = Nil

\* the way uploadFileS3 took is the one the task's size asks for, and a
\* success returns the task's size
RightPath ==
    LET r == upOut.r
        big == upOut.task.fileSize > multipartThreshold
    IN  /\ r.multipart <=> big
        /\ r.put <=> ~big
        /\ ~r.err => r.n = upOut.task.fileSize

\* C16 as stated: every task goes one of the two ways.
C16_Original == upOut # NoInput => RightPath

\* C16: when the file opens, uploadFileS3 calls uploadMultipart exactly when
\* the task's size is above the threshold and PutObject otherwise, and a
\* success returns the task's size; when the file does not open it calls
\* neither and returns 0 and an error.
C16_PathBySize ==
    upOut # NoInput =>
       /\ upOut.open => RightPath
       /\ ~upOut.open =>
             /\ ~upOut.r.multipart /\ ~upOut.r.put
             /\ upOut.r.err /\ upOut.r.n = 0

\* a file of exactly the threshold is sent with one PutObject
C16_Witness ==
    /\ upOut # NoInput
    /\ upOut.open
    /\ upOut.task.fileSize = multipartThreshold
    /\ upOut.r.put /\ ~upOut.r.multipart
    /\ ~upOut.r.err
    /\ upOut.r.n = multipartThreshold
    /\ remote[KeyA] = StoredObject(local[KeyA], FALSE, now)


---------------------------------------------------------------------------
(* A cycle over a directory of new files, more than the channel and the
   workers hold together *)

PoolInit ==
    /\ local = [k \in Keys |-> FileNew]
    /\ remote = [k \in Keys |-> NoObj]
    /\ now = MaxTime
    /\ faulty \in {{}, {KeyB}}
    /\ pc = "idle"
    /\ dIn = NoInput
    /\ dOut = NoInput
    /\ upOut = NoInput
    /\ mp = NoInput
    /\ ignOut = NoInput
    /\ cycle = 1
    /\ sched = "off"
    /\ prev = NoInput
    /\ errorMutex = 0
    /\ held = [w \in Workers |-> <<>>]
    /\ other = OtherIdle
    /\ ignorePatterns = <<ExecName>>
    /\ Quiet

SpecPool == PoolInit /\ [][Next]_vars


\* the number of tasks waiting in the channel under key k
Waiting(k) == Cardinality({i \in 1..Len(tasks) : tasks[i].s3Key = k})

\* the number of workers that hold a task for key k
Holders(k) ==
    Cardinality({w \in DOMAIN wstate :
                    wstate[w] = "upload" /\ wtask[w].s3Key = k})

\* the number of times key k was sent on the channel
Sent(k) == Cardinality({i \in 1..Len(enqueued) : enqueued[i] = k})

\* C11: every task sent on the channel is sent once and is, at any moment,
\* either waiting in the channel, or held by one worker, or uploaded once;
\* the walk that ends without error has sent a task for every file it
\* decided to upload; and after the join every task was uploaded once.
C11_EachTaskOnce ==
    /\ \A k \in Keys :
          /\ Sent(k) <= 1
          /\ Waiting(k) + Holders(k) + attempts[k] = Sent(k)
    /\ (pc \notin {"idle", "walk", "send"} /\ ~walkErr) =>
          Range(enqueued) = examined \ skipped
    /\ (pc \notin {"idle", "walk", "send", "close", "wait"}) =>
          \A k \in Range(enqueued) : attempts[k] = 1

\* the channel is full, the five workers are uploading, and the walk
\* callback waits with the next task
C11_Witness ==
    /\ pc = "send"
    /\ Len(tasks) = tasksCap
    /\ \A w \in Workers : wstate[w] = "upload"
    /\ Len(enqueued) = tasksCap + uploadWorkers
    /\ pending.s3Key \notin Range(enqueued)

RECURSIVE AttemptsUpTo(_)
\* the number of uploadFileS3 calls that have returned, over the first i keys
AttemptsUpTo(i) ==
    IF i = 0 THEN 0 ELSE attempts[WalkOrder[i]] + AttemptsUpTo(i - 1)

\* the tasks taken from the channel whose upload has not returned
InFlight == Len(enqueued) - Len(tasks) - AttemptsUpTo(Len(WalkOrder))

\* C12: at any moment at most uploadWorkers uploads are running and at most
\* tasksCap tasks wait in the channel.
C12_BoundedPool ==
    /\ InFlight <= uploadWorkers
    /\ Len(tasks) <= tasksCap

\* five uploads run while the channel is full
C12_Witness ==
    /\ InFlight = uploadWorkers
    /\ Len(tasks) = tasksCap
    /\ pc = "walk"


---------------------------------------------------------------------------
(* One multipart upload: uploadMultipart and the uploader it configures *)

\* mutant: the uploader is left with the library's defaults
uploaderConfig_defaults ==
    [PartSize |-> 5 * 1024 * 1024, Concurrency |-> 5,
     MaxUploadParts |-> MaxUploadParts, LeavePartsOnError |-> FALSE]

\* mutant: the parts of a failed upload are kept
uploaderConfig_leaveParts ==
    [PartSize |-> partSize, Concurrency |-> partConcurrency,
     MaxUploadParts |-> MaxUploadParts, LeavePartsOnError |-> TRUE]

\* main.go:442-447
uploaderConfig ==
    [PartSize |-> partSize, Concurrency |-> partConcurrency,
     MaxUploadParts |-> MaxUploadParts, LeavePartsOnError |-> FALSE]

\* the number of parts of length p that a stream of s bytes fills
CeilDiv(s, p) == (s + p - 1) \div p

\* large files: just above the threshold, a whole number of parts, one byte
\* more, the most parts of partSize the uploader may send, one byte more
MpSizes ==
    {multipartThreshold + 1, 3 * partSize, 3 * partSize + 1,
     MaxUploadParts * partSize, MaxUploadParts * partSize + 1}

MpInit ==
    /\ \E s \in MpSizes, t \in Times, o \in {NoObj, ObjStale} :
          /\ local = [k \in Keys |->
                        IF k = KeyA
                        THEN [size |-> s, modTime |-> t, content |-> "c1"]
                        ELSE NoFile]
          /\ remote = [k \in Keys |-> IF k = KeyA THEN o ELSE NoObj]
    /\ now = MaxTime
    /\ faulty = Keys
    /\ pc = "mp"
    /\ dIn = NoInput
    /\ dOut = NoInput
    /\ upOut = NoInput
    /\ mp = NoInput
    /\ ignOut = NoInput
    /\ cycle = 1
    /\ sched = "off"
    /\ prev = NoInput
    /\ errorMutex = 0
    /\ held = [w \in Workers |-> <<>>]
    /\ other = OtherIdle
    /\ ignorePatterns = <<ExecName>>
    /\ Quiet

mpFrame == << local, now, faulty, pc, cycleVars, dIn, dOut, runVars >>

\* the task of a as uploadFileS3 gets it
MpTask == uploadTask(KeyA, local[KeyA])

\* the length of the parts the uploader takes for a stream of s bytes:
\* PartSize, or more when s bytes are not fewer than MaxUploadParts parts
\* of PartSize
PartLength(cfg, s) ==
    IF s \div cfg.PartSize >= cfg.MaxUploadParts
    THEN (s \div cfg.MaxUploadParts) + 1
    ELSE cfg.PartSize

\* uploadFileS3 opens the file and calls uploadMultipart, which gives the
\* stream to uploader.Upload
MpStart ==
    /\ pc = "mp"
    /\ mp = NoInput
    /\ uploadFileS3(MpTask, TRUE, TRUE).multipart
    /\ mp' = [state |-> "running", size |-> MpTask.fileSize,
              psize |-> PartLength(uploaderConfig, MpTask.fileSize),
              offset |-> 0, n |-> 0, inflight |-> {}, parts |-> {},
              sent |-> 0, peak |-> 0, before |-> remote[KeyA]]
    /\ UNCHANGED << mpFrame, remote, upOut >>

\* the next part is read from the stream and given to a free part uploader
MpSendPart ==
    /\ pc = "mp"
    /\ mp # NoInput
    /\ mp.state = "running"
    /\ mp.offset < mp.size
    /\ Cardinality(mp.inflight) < uploaderConfig.Concurrency
    /\ LET len == IF mp.size - mp.offset < mp.psize
                  THEN mp.size - mp.offset ELSE mp.psize
           busy == Cardinality(mp.inflight) + 1
       IN  mp' = [mp EXCEPT !.offset = @ + len,
                            !.n = @ + 1,
                            !.inflight = @ \cup {mp.n + 1},
                            !.peak = IF busy > @ THEN busy ELSE @]
    /\ UNCHANGED << mpFrame, remote, upOut >>

\* the UploadPart of part p succeeds
MpPartDone(p) ==
    /\ pc = "mp"
    /\ mp # NoInput
    /\ p \in mp.inflight
    /\ mp' = [mp EXCEPT !.inflight = @ \ {p},
                         !.parts = @ \cup {p},
                         !.sent = @ + 1]
    /\ UNCHANGED << mpFrame, remote, upOut >>

\* the UploadPart of part p fails for good: no further part is sent
MpPartFail(p) ==
    /\ pc = "mp"
    /\ mp # NoInput
    /\ p \in mp.inflight
    /\ mp' = [mp EXCEPT !.inflight = @ \ {p}, !.state = "failing"]
    /\ UNCHANGED << mpFrame, remote, upOut >>

\* every part is stored: the parts are composed into the object, Upload
\* returns nil and uploadMultipart the size
MpComplete ==
    /\ pc = "mp"
    /\ mp # NoInput
    /\ mp.state = "running"
    /\ mp.offset = mp.size
    /\ mp.inflight = {}
    /\ mp' = [mp EXCEPT !.state = "completed"]
    /\ remote' = [remote EXCEPT ![KeyA] = StoredObject(local[KeyA], TRUE, now)]
    /\ upOut' = [task |-> MpTask, open |-> TRUE,
                 r |-> uploadFileS3(MpTask, TRUE, TRUE)]
    /\ UNCHANGED mpFrame

\* after a failed part the uploader aborts the multipart upload, which
\* discards its parts unless LeavePartsOnError is set; Upload returns the
\* error and uploadMultipart 0
MpAbort ==
    /\ pc = "mp"
    /\ mp # NoInput
    /\ mp.state = "failing"
    /\ mp.inflight = {}
    /\ mp' = [mp EXCEPT !.state = "aborted",
                         !.parts = IF uploaderConfig.LeavePartsOnError
                                   THEN @ ELSE {}]
    /\ upOut' = [task |-> MpTask, open |-> TRUE,
                 r |-> uploadFileS3(MpTask, TRUE, FALSE)]
    /\ UNCHANGED << mpFrame, remote >>

MpNext ==
    \/ MpStart
    \/ MpSendPart
    \/ \E p \in 1..MaxUploadParts : MpPartDone(p)
    \/ \E p \in 1..MaxUploadParts : MpPartFail(p)
    \/ MpComplete
    \/ MpAbort

SpecMultipart == MpInit /\ [][MpNext]_vars

\* never more than partConcurrency parts of the file are being sent
FewInFlight == mp # NoInput => Cardinality(mp.inflight) <= partConcurrency

C18_FailedMultipartLeavesNothing ==
    (mp # NoInput /\ mp.state \in {"failing", "aborted"}) =>
       /\ remote[KeyA] = mp.before
       /\ mp.state = "aborted" =>
             /\ mp.parts = {}
             /\ upOut # NoInput
             /\ upOut.r.err
             /\ upOut.r.n = 0

\* two parts were stored before another failed; the object of an earlier
\* cycle is still under the key
C18_Witness ==
    /\ mp # NoInput
    /\ mp.state = "aborted"
    /\ mp.sent = 2
    /\ mp.parts = {}
    /\ mp.before = ObjStale
    /\ remote[KeyA] = ObjStale
    /\ upOut.r.err
    /\ upOut.r.n = 0


---------------------------------------------------------------------------
(* The decision procedure as a whole *)

\* the tag has a hyphen somewhere
Hyphenated(etag) == \E i \in 1..Len(etag) : etag[i] = Hyphen

\* the seven steps, the first applicable one deciding; what is returned
\* for a local file that can be inspected and read
SevenSteps(head, stat, md5) ==
    LET newer == stat.modTime > head.LastModified
        upload == [upload |-> TRUE, failed |-> FALSE]
        skip == [upload |-> FALSE, failed |-> FALSE]
        iff(b) == IF b THEN upload ELSE skip
    IN  IF head.status = "notfound" THEN upload
        ELSE IF head.status = "error" THEN [upload |-> FALSE, failed |-> TRUE]
        ELSE IF head.ContentLength # stat.size THEN upload
        ELSE IF head.LastModified = NilTime THEN upload
        ELSE IF ~newer THEN skip
        ELSE IF stat.size > multipartThreshold THEN iff(newer)
        ELSE IF Hyphenated(head.ETag) THEN iff(newer)
        ELSE iff(md5.sum # Unquoted(head.ETag))

\* C28: for every HEAD answer and every local file that can be inspected,
\* and read where it is read, fileChangedOnS3 returns what the seven steps
\* give, the first applicable step deciding.
C28_SevenStepProcedure ==
    (/\ dOut # NoInput
     /\ ~dIn.stat.err
     /\ ~(dOut.hashed /\ dIn.md5.err))
    => LET s == SevenSteps(dIn.head, dIn.stat, dIn.md5)
       IN  /\ dOut.upload = s.upload
           /\ (dOut.err # Nil) = s.failed

\* step 7 with a hyphenated tag on a small, newer file of the remote size:
\* uploaded for its time
C28_Witness ==
    /\ dOut # NoInput
    /\ dIn.head.status = "ok"
    /\ ~dIn.stat.err
    /\ ~dIn.md5.err
    /\ dIn.head.ContentLength = dIn.stat.size
    /\ dIn.stat.size = 12
    /\ dIn.head.LastModified # NilTime
    /\ dIn.stat.modTime > dIn.head.LastModified
    /\ Hyphenated(dIn.head.ETag)
    /\ dOut.upload
    /\ dOut.err = Nil

\* steps 1 to 6 do not decide: metadata of the local size with a
\* lastModified, and a local file not above the threshold that is newer
StepsOneToSixPass ==
    /\ dIn.head.status = "ok"
    /\ ~dIn.stat.err
    /\ dIn.head.ContentLength = dIn.stat.size
    /\ dIn.head.LastModified # NilTime
    /\ dIn.stat.modTime > dIn.head.LastModified
    /\ dIn.stat.size <= multipartThreshold

\* C29 as stated: the local file is hashed only where the comparison of
\* the hash decides, so not for a hyphenated tag.
C29_Original ==
    (dOut # NoInput /\ dOut.hashed) =>
       (StepsOneToSixPass /\ ~Hyphenated(dIn.head.ETag))

\* C29: the local file is hashed exactly when steps 1 to 6 do not decide,
\* also when the tag is hyphenated; with such a tag the hash is computed
\* and not compared, and a failure to compute it is returned as the error.
C29_HashedAfterSixSteps ==
    dOut # NoInput =>
       /\ dOut.hashed <=> StepsOneToSixPass
       /\ (StepsOneToSixPass /\ Hyphenated(dIn.head.ETag)) =>
             IF dIn.md5.err
             THEN dOut.err = "hash" /\ ~dOut.upload
             ELSE dOut.err = Nil /\ dOut.upload

\* a newer small file of the remote size against a hyphenated tag: hashed,
\* and uploaded for its time whatever the hash
C29_Witness ==
    /\ dOut # NoInput
    /\ StepsOneToSixPass
    /\ Hyphenated(dIn.head.ETag)
    /\ ~dIn.md5.err
    /\ dOut.hashed
    /\ dOut.upload
    /\ dIn.stat.size = 5


---------------------------------------------------------------------------
(* Reconciliation and the ignore matcher; the pages of the listing *)

\* a local file that the upload phase ignores
IgnoredLocal(k) == local[k] # NoFile /\ shouldIgnore(ignorePatterns, k)

\* C25: the key of a local file that the matcher ignores is in the
\* reconciler's key set, its object is never deleted, and the file is never
\* examined, sent on the channel or uploaded.
C25_IgnoredFileProtectsObject ==
    \A k \in Keys :
       IgnoredLocal(k) =>
          /\ deletes[k] = 0
          /\ attempts[k] = 0
          /\ k \notin examined
          /\ k \notin Range(enqueued)
          /\ (pc \in {"list", "page"} \/ ReconCompleted) => k \in localFiles

\* t/c is ignored by the pattern c; its object, older than the file and of
\* other content, was listed and is still in the bucket after the pass
C25_Witness ==
    /\ ReconCompleted
    /\ IgnoredLocal(KeyTC)
    /\ KeyTC \in listed
    /\ remote[KeyTC] = ObjStale
    /\ deletes[KeyTC] = 0
    /\ deletes[KeyB] = 1

\* some DeleteObject was issued
SomeDelete == \E k \in Keys : deletes[k] > 0

\* C30 as stated: no DeleteObject is issued before the last page of the
\* listing has been fetched.
C30_Original == SomeDelete => lastPage

\* C30: the objects of a page are decided, and deleted, before the next
\* page is requested; a DeleteObject is issued only for a key of a page
\* already fetched; and the page callback never ends the listing: a pass
\* that ends without a failed request has fetched the last page and listed
\* every key of the bucket.
C30_PageByPage ==
    /\ \A k \in Keys : deletes[k] > 0 => k \in listed \ localFiles
    /\ (pc = "list" /\ lists > 0) =>
          \A k \in listed \ localFiles : deletes[k] = 1
    /\ ReconCompleted =>
          /\ lastPage
          /\ \A k \in Keys : remote[k] # NoObj => k \in listed

\* the objects of the first page are deleted and the second page is not
\* yet requested
C30_Witness ==
    /\ pc = "list"
    /\ lists = 1
    /\ ~lastPage
    /\ deletes[KeyA] = 1
    /\ deletes[KeyB] = 1
    /\ remote[KeyTC] # NoObj
    /\ KeyTC \notin listed


---------------------------------------------------------------------------
(* The ignore matcher on its own *)

\* patterns as .syncignore gives them: a directory with its slash, a glob,
\* a name with a capital, a file name, a whole relative path
MatchPatterns ==
    { <<"t", Slash>>, <<"*", "l">>, <<"T">>, <<"c">>, <<"t", Slash, "c">>,
      <<"l">> }

\* the pattern sets: none, one or two patterns
PatternLists ==
    {<<>>} \cup {<<p>> : p \in MatchPatterns}
           \cup {<<p, q>> : p \in MatchPatterns, q \in MatchPatterns}

\* paths: the patterns themselves, and paths that have a pattern as a
\* prefix, a suffix or a part, that a glob would match, or that differ from
\* one in the case of a letter
MatchPaths ==
    MatchPatterns \cup
    { <<"t", "s", Slash>>, <<"f", "l">>, <<"f", "l", "b">>, <<"t">>,
      <<"t", "c">>, <<"x", Slash, "t", Slash, "c">>, <<"c", Slash, "x">>,
      <<"t", Slash, "x">> }

MatchInit ==
    /\ ignorePatterns \in PatternLists
    /\ local = [k \in Keys |-> NoFile]
    /\ remote = [k \in Keys |-> NoObj]
    /\ now = MaxTime
    /\ faulty = Keys
    /\ pc = "match"
    /\ dIn = NoInput
    /\ dOut = NoInput
    /\ upOut = NoInput
    /\ mp = NoInput
    /\ ignOut = NoInput
    /\ cycle = 1
    /\ sched = "off"
    /\ prev = NoInput
    /\ errorMutex = 0
    /\ held = [w \in Workers |-> <<>>]
    /\ other = OtherIdle
    /\ Quiet

\* a call of shouldIgnore
Match ==
    /\ pc = "match"
    /\ ignOut = NoInput
    /\ \E p \in MatchPaths :
          ignOut' = [path |-> p, ignored |-> shouldIgnore(ignorePatterns, p)]
    /\ UNCHANGED << envVars, remote, pc, cycleVars, dIn, dOut, upOut, mp,
                    cycle, sched, prev, sideVars >>

MatchNext == Match

SpecMatch == MatchInit /\ [][MatchNext]_vars

\* the last index of path that holds no slash, 0 if there is none
LastNameIndex(path) ==
    LET named == {i \in 1..Len(path) : path[i] # Slash}
    IN  IF named = {} THEN 0 ELSE CHOOSE i \in named : \A j \in named : j <= i

\* the final component of a path that names something: the characters
\* between the last slash before its last name character and that character
FinalComponent(path) ==
    LET e == LastNameIndex(path)
        slashes == {i \in 1..e : path[i] = Slash}
        s == IF slashes = {} THEN 0
             ELSE CHOOSE i \in slashes : \A j \in slashes : j <= i
    IN  SubSeq(path, s + 1, e)

\* C22: shouldIgnore is true exactly when some pattern equals, character
\* for character, the whole path or its final component; with no pattern
\* nothing is ignored.
C22_ExactMatchOnly ==
    ignOut # NoInput =>
       /\ ignOut.ignored <=>
             \E i \in 1..Len(ignorePatterns) :
                \/ ignorePatterns[i] = ignOut.path
                \/ ignorePatterns[i] = FinalComponent(ignOut.path)
       /\ ignorePatterns = <<>> => ~ignOut.ignored

\* the directory pattern t/ and the glob *l are loaded; the file t/x under
\* the directory is not ignored
C22_Witness ==
    /\ ignOut # NoInput
    /\ ignorePatterns = << <<"t", Slash>>, <<"*", "l">> >>
    /\ ignOut.path = <<"t", Slash, "x">>
    /\ ~ignOut.ignored


---------------------------------------------------------------------------
(* The start of the program: main builds ignorePatterns, then the first
   cycle runs *)

\* strings.TrimSpace of a line whose white space is blanks
TrimSpace(line) == Trim(line, " ")

\* the patterns loadSyncIgnoreFile appends for the lines of .syncignore:
\* each line trimmed, blank lines and lines that begin with # left out
RECURSIVE loadSyncIgnoreFile(_)
loadSyncIgnoreFile(lines) ==
    IF lines = <<>> THEN <<>>
    ELSE LET line == TrimSpace(Head(lines))
         IN  (IF line = <<>> \/ Head(line) = "#" THEN <<>> ELSE <<line>>)
             \o loadSyncIgnoreFile(Tail(lines))

\* the cycles a run is followed for
MaxCycles == 2

\* lines of a .syncignore: a directory, a file name between blanks, a
\* comment, a blank line
SyncIgnoreLines ==
    { <<"t", Slash>>, <<" ", "c", " ">>, <<"#", "a">>, <<" ">> }

\* the .syncignore files: no line, one line or two
SyncIgnoreFiles ==
    {<<>>} \cup {<<l>> : l \in SyncIgnoreLines}
           \cup {<<l, m>> : l \in SyncIgnoreLines, m \in SyncIgnoreLines}

StartInit ==
    /\ ignorePatterns = <<>>
    /\ \E fa \in LocalChoices :
          local = [k \in Keys |->
                     IF k = KeyA THEN fa
                     ELSE IF k \in {KeyG, KeyTC} THEN FileNew ELSE NoFile]
    /\ \E og \in {NoObj, ObjStale}, otc \in {NoObj, ObjStale} :
          remote = [k \in Keys |->
                      IF k = KeyG THEN og ELSE IF k = KeyTC THEN otc ELSE NoObj]
    /\ now = MaxTime
    /\ faulty = {KeyA}
    /\ pc = "start"
    /\ dIn = NoInput
    /\ dOut = NoInput
    /\ upOut = NoInput
    /\ mp = NoInput
    /\ ignOut = NoInput
    /\ cycle = 1
    /\ sched = "off"
    /\ prev = NoInput
    /\ errorMutex = 0
    /\ held = [w \in Workers |-> <<>>]
    /\ other = OtherIdle
    /\ Quiet

\* main up to the call of startScheduler: the name of the executable is
\* appended when os.Executable succeeds, then the patterns of .syncignore;
\* a .syncignore that cannot be read ends the program (log.Fatalf)
Startup ==
    /\ pc = "start"
    /\ \E execOk \in BOOLEAN :
       LET own == IF execOk THEN <<ExecName>> ELSE <<>> IN
       \/ \E lines \in SyncIgnoreFiles :
             /\ ignorePatterns' = own \o loadSyncIgnoreFile(lines)
             /\ pc' = "idle"
       \/ /\ ignorePatterns' = own
          /\ pc' = "exit"
    /\ UNCHANGED << local, now, faulty, remote, walkVars, poolVars, reconVars,
                    result, detHist, upHist, reconHist, phaseErr, detVars >>

StartNext == Startup \/ Next

SpecStart == StartInit /\ [][StartNext]_vars

\* key k is matched by a loaded pattern: as a whole or by its file name
Matched(k) ==
    \E i \in 1..Len(ignorePatterns) :
       ignorePatterns[i] = k \/ ignorePatterns[i] = FinalComponent(k)

\* C21: for a file whose key the matcher matches, the upload phase issues
\* no HeadObject, sends no task and calls no upload.
C21_IgnoredNeverReachesUpload ==
    \A k \in Keys :
       (pc \notin {"start", "exit"} /\ Matched(k)) =>
          /\ k \notin examined
          /\ k \notin headErr
          /\ k \notin Range(enqueued)
          /\ attempts[k] = 0

\* the cycle has ended well; t/c, matched by the pattern c and absent from
\* the bucket, was left alone while a was uploaded
C21_Witness ==
    /\ pc = "done"
    /\ result = "ok"
    /\ Matched(KeyTC)
    /\ remote[KeyTC] = NoObj
    /\ KeyTC \notin examined
    /\ attempts[KeyA] = 1

\* key k lies under a directory that a loaded pattern names
UnderIgnoredDirectory(k) ==
    \E i \in 1..Len(ignorePatterns) :
       LET p == ignorePatterns[i] IN
       /\ p # <<>>
       /\ p[Len(p)] = Slash
       /\ Len(p) < Len(k)
       /\ SubSeq(k, 1, Len(p)) = p

\* C23: with a directory pattern in .syncignore, no file under that
\* directory is sent on the channel or uploaded.
C23_DirectoryPatternIgnoresContents ==
    \A k \in Keys :
       UnderIgnoredDirectory(k) =>
          /\ k \notin Range(enqueued)
          /\ attempts[k] = 0

\* the executable's own file
ExecLoaded == \E i \in 1..Len(ignorePatterns) : ignorePatterns[i] = ExecName

\* C24: once main has built the patterns, they hold the name of the
\* running executable, and no cycle sends or uploads the file of that name.
C24_ExecutableAlwaysIgnored ==
    pc \notin {"start", "exit"} =>
       /\ ExecLoaded
       /\ KeyG \notin Range(enqueued)
       /\ attempts[KeyG] = 0


---------------------------------------------------------------------------
(* startScheduler: the first cycle, then the cron scheduler and its cycles *)

CycInit ==
    /\ local = [k \in Keys |-> IF k = KeyA THEN FileNew ELSE NoFile]
    /\ \E oa \in {NoObj, ObjStale}, ob \in {NoObj, ObjStale} :
          remote = [k \in Keys |->
                      IF k = KeyA THEN oa ELSE IF k = KeyB THEN ob ELSE NoObj]
    /\ now = 1
    /\ faulty \in {{}, {KeyA}}
    /\ pc = "idle"
    /\ dIn = NoInput
    /\ dOut = NoInput
    /\ upOut = NoInput
    /\ mp = NoInput
    /\ ignOut = NoInput
    /\ cycle = 1
    /\ sched = "off"
    /\ prev = NoInput
    /\ errorMutex = 0
    /\ held = [w \in Workers |-> <<>>]
    /\ other = OtherIdle
    /\ ignorePatterns = <<ExecName>>
    /\ Quiet

\* mutant: a first cycle that failed ends the program
SchedulerStart_stopOnFailure ==
    /\ pc = "done"
    /\ sched = "off"
    /\ IF result = "err"
       THEN /\ sched' = "stopped"
            /\ pc' = "exit"
       ELSE \/ sched' = "on" /\ pc' = pc
            \/ sched' = "fatal" /\ pc' = "exit"
    /\ UNCHANGED << envVars, remote, cycleVars, dIn, dOut, upOut, mp, ignOut,
                    cycle, prev, sideVars >>

\* startScheduler after the first syncDirectoryWithS3 has returned (its
\* error is logged): cron.New, AddFunc, Start. A cron expression AddFunc
\* rejects ends the program (log.Fatalf).
SchedulerStart ==
    /\ pc = "done"
    /\ sched = "off"
    /\ \/ sched' = "on" /\ pc' = pc
       \/ sched' = "fatal" /\ pc' = "exit"
    /\ UNCHANGED << envVars, remote, cycleVars, dIn, dOut, upOut, mp, ignOut,
                    cycle, prev, sideVars >>

\* mutant: the error list is kept from one cycle to the next
CronTick_keepErrors ==
    /\ sched = "on"
    /\ pc = "done"
    /\ cycle < MaxCycles
    /\ cycle' = cycle + 1
    /\ prev' = [result |-> result, phaseErr |-> phaseErr,
                failedUp |-> failedUp, headErr |-> headErr,
                hashErr |-> hashErr, deleteErr |-> deleteErr]
    /\ now' \in now..MaxTime
    /\ faulty' \in {{}, {KeyA}}
    /\ pc' = "idle"
    /\ wi' = 1
    /\ pending' = NoTask
    /\ walkErr' = FALSE
    /\ tasks' = <<>>
    /\ closed' = FALSE
    /\ wstate' = [w \in Workers |-> "none"]
    /\ wtask' = [w \in Workers |-> NoTask]
    /\ uploadErrors' = uploadErrors
    /\ localFiles' = {}
    /\ marker' = 0
    /\ page' = <<>>
    /\ lastPage' = FALSE
    /\ pi' = 1
    /\ result' = "none"
    /\ examined' = {}
    /\ headErr' = {}
    /\ hashErr' = {}
    /\ skipped' = {}
    /\ enqueued' = <<>>
    /\ attempts' = [k \in Keys |-> 0]
    /\ failedUp' = {}
    /\ lists' = 0
    /\ listed' = {}
    /\ deletes' = [k \in Keys |-> 0]
    /\ deleteErr' = {}
    /\ phaseErr' = "none"
    /\ UNCHANGED << local, remote, ignorePatterns, dIn, dOut, upOut, mp,
                    ignOut, sched, sideVars >>

\* the scheduler runs the job: a new call of syncDirectoryWithS3, whose
\* channel, wait group, error list and key set are new local variables.
\* The tree, the bucket and the patterns are as the earlier cycle left them;
\* time has passed and the transfers may now fail or succeed.
CronTick ==
    /\ sched = "on"
    /\ pc = "done"
    /\ cycle < MaxCycles
    /\ cycle' = cycle + 1
    /\ prev' = [result |-> result, phaseErr |-> phaseErr,
                failedUp |-> failedUp, headErr |-> headErr,
                hashErr |-> hashErr, deleteErr |-> deleteErr]
    /\ now' \in now..MaxTime
    /\ faulty' \in {{}, {KeyA}}
    /\ pc' = "idle"
    /\ wi' = 1
    /\ pending' = NoTask
    /\ walkErr' = FALSE
    /\ tasks' = <<>>
    /\ closed' = FALSE
    /\ wstate' = [w \in Workers |-> "none"]
    /\ wtask' = [w \in Workers |-> NoTask]
    /\ uploadErrors' = <<>>
    /\ localFiles' = {}
    /\ marker' = 0
    /\ page' = <<>>
    /\ lastPage' = FALSE
    /\ pi' = 1
    /\ result' = "none"
    /\ examined' = {}
    /\ headErr' = {}
    /\ hashErr' = {}
    /\ skipped' = {}
    /\ enqueued' = <<>>
    /\ attempts' = [k \in Keys |-> 0]
    /\ failedUp' = {}
    /\ lists' = 0
    /\ listed' = {}
    /\ deletes' = [k \in Keys |-> 0]
    /\ deleteErr' = {}
    /\ phaseErr' = "none"
    /\ UNCHANGED << local, remote, ignorePatterns, dIn, dOut, upOut, mp,
                    ignOut, sched, sideVars >>

CycNext == Next \/ SchedulerStart \/ CronTick

SpecCycles == CycInit /\ [][CycNext]_vars

\* every call the program makes returns, and the scheduler fires
FairSpecCycles == SpecCycles /\ WF_vars(CycNext)

\* the files the upload phase has to look at
Candidates == {k \in Keys : local[k] # NoFile /\ ~shouldIgnore(ignorePatterns, k)}

\* key k is in the bucket with the content of the local file
InSync(k) ==
    /\ remote[k] # NoObj
    /\ remote[k].size = local[k].size
    /\ IF local[k].size > multipartThreshold
       THEN remote[k].etag = MultipartETag
       ELSE Unquoted(remote[k].etag) = MD5Sum(local[k].content)

\* C26: what a cycle does follows from the tree, the bucket as the cycle
\* reads it and the patterns, in every cycle alike: a cycle that ends well
\* has examined every candidate file, has left alone only files that
\* fileChangedOnS3 finds unchanged and has uploaded the others; a cycle
\* fails only for an error of its own; it deletes only keys without a local
\* file.
C26_StatelessBetweenCycles ==
    /\ (pc = "done" /\ result = "ok") =>
          \A k \in Candidates :
             /\ k \in examined
             /\ k \in skipped =>
                  ~fileChangedOnS3(HeadOf(k), StatOf(local[k]),
                                   calculateMD5(local[k])).upload
             /\ k \notin skipped => attempts[k] = 1 /\ InSync(k)
    /\ (pc = "done" /\ result = "err" /\ phaseErr = "upload") => failedUp # {}
    /\ (pc = "done" /\ result = "err" /\ phaseErr = "detect") =>
          headErr \cup hashErr # {}
    /\ \A k \in Keys : deletes[k] > 0 => local[k] = NoFile /\ k \in listed

\* the second cycle has ended well and has uploaded the file whose upload
\* failed in the first
C26_Witness ==
    /\ cycle = 2
    /\ pc = "done"
    /\ result = "ok"
    /\ prev.result = "err"
    /\ KeyA \in prev.failedUp
    /\ attempts[KeyA] = 1
    /\ InSync(KeyA)

\* the first cycle has returned
FirstCycleOver == cycle > 1 \/ pc \in {"done", "exit"}

---------------------------------------------------------------------------
(* The workers' append to uploadErrors, step by step *)

lockFrame == << dIn, dOut, upOut, mp, ignOut, cycle, sched, prev, other >>

LockInit ==
    /\ local = [k \in Keys |-> IF k \in CoreKeys THEN FileNew ELSE NoFile]
    /\ remote = [k \in Keys |-> NoObj]
    /\ now = MaxTime
    /\ faulty = {KeyA, KeyB}
    /\ pc = "idle"
    /\ dIn = NoInput
    /\ dOut = NoInput
    /\ upOut = NoInput
    /\ mp = NoInput
    /\ ignOut = NoInput
    /\ cycle = 1
    /\ sched = "off"
    /\ prev = NoInput
    /\ errorMutex = 0
    /\ held = [w \in Workers |-> <<>>]
    /\ other = OtherIdle
    /\ ignorePatterns = <<ExecName>>
    /\ Quiet

\* uploadFileS3 returns to the worker: on success the loop goes on, on an
\* error the worker goes to errorMutex.Lock
WorkerCall(w) ==
    /\ wstate[w] = "upload"
    /\ \E open \in BOOLEAN, sent \in BOOLEAN :
       LET t == wtask[w]
           r == uploadFileS3(t, open, sent)
       IN  /\ r.err => t.s3Key \in faulty
           /\ attempts' = [attempts EXCEPT ![t.s3Key] = @ + 1]
           /\ IF r.err
              THEN /\ failedUp' = failedUp \cup {t.s3Key}
                   /\ wstate' = [wstate EXCEPT ![w] = "lock"]
                   /\ UNCHANGED << remote, wtask >>
              ELSE /\ remote' = [remote EXCEPT ![t.s3Key] =
                                   StoredObject(local[t.s3Key], r.multipart, now)]
                   /\ wstate' = [wstate EXCEPT ![w] = "recv"]
                   /\ wtask' = [wtask EXCEPT ![w] = NoTask]
                   /\ UNCHANGED failedUp
    /\ UNCHANGED << envVars, lockFrame, errorMutex, held, pc, walkVars, tasks,
                    closed, uploadErrors, reconVars, result, detHist, enqueued,
                    reconHist, phaseErr >>

\* mutant: the append is not guarded by the mutex
WorkerLock_noMutex(w) ==
    /\ wstate[w] = "lock"
    /\ errorMutex' = w
    /\ held' = [held EXCEPT ![w] = uploadErrors]
    /\ wstate' = [wstate EXCEPT ![w] = "append"]
    /\ UNCHANGED << envVars, lockFrame, remote, pc, walkVars, tasks, closed,
                    wtask, uploadErrors, reconVars, result, detHist, upHist,
                    reconHist, phaseErr >>

\* errorMutex.Lock returns, which it does only while no worker holds the
\* mutex; append reads the slice
WorkerLock(w) ==
    /\ wstate[w] = "lock"
    /\ errorMutex = 0
    /\ errorMutex' = w
    /\ held' = [held EXCEPT ![w] = uploadErrors]
    /\ wstate' = [wstate EXCEPT ![w] = "append"]
    /\ UNCHANGED << envVars, lockFrame, remote, pc, walkVars, tasks, closed,
                    wtask, uploadErrors, reconVars, result, detHist, upHist,
                    reconHist, phaseErr >>

\* the slice append built is assigned to uploadErrors; errorMutex.Unlock
WorkerAppend(w) ==
    /\ wstate[w] = "append"
    /\ uploadErrors' = Append(held[w], wtask[w].s3Key)
    /\ errorMutex' = 0
    /\ held' = [held EXCEPT ![w] = <<>>]
    /\ wstate' = [wstate EXCEPT ![w] = "recv"]
    /\ wtask' = [wtask EXCEPT ![w] = NoTask]
    /\ UNCHANGED << envVars, lockFrame, remote, pc, walkVars, tasks, closed,
                    reconVars, result, detHist, upHist, reconHist, phaseErr >>

LockNext ==
    \/ SyncStart
    \/ WalkError
    \/ WalkVisit
    \/ Send
    \/ WalkReturn
    \/ CloseTasks
    \/ \E w \in Workers : WorkerTake(w)
    \/ \E w \in Workers : WorkerCall(w)
    \/ \E w \in Workers : WorkerLock(w)
    \/ \E w \in Workers : WorkerAppend(w)
    \/ \E w \in Workers : WorkerExit(w)
    \/ UploadReturn
    \/ ReconWalk
    \/ ListPage
    \/ ReconObject
    \/ PageReturn

SpecLock == LockInit /\ [][LockNext]_vars

\* every call returns and every goroutine that can run does run
FairSpecLock == SpecLock /\ WF_vars(LockNext)

\* uploadDirectoryToS3 has returned
UploadReturned == pc \notin {"idle", "walk", "send", "close", "wait"}

\* C31: when uploadDirectoryToS3 has returned, the channel is empty, the
\* walk holds no task, the five workers have exited holding no task, and
\* every task that was sent has been attempted once and either its object
\* is in the bucket or its failure is in the error list; a walk that ended
\* with an error makes no difference.
C31_ReturnAfterDrainAndJoin ==
    UploadReturned =>
       /\ tasks = <<>>
       /\ pending = NoTask
       /\ \A w \in Workers : wstate[w] = "exited" /\ wtask[w] = NoTask
       /\ \A k \in Range(enqueued) :
             /\ attempts[k] = 1
             /\ k \in failedUp => k \in Range(uploadErrors)
             /\ k \notin failedUp =>
                   remote[k] = StoredObject(local[k], FALSE, now)

\* the walk ended with an error after two tasks were sent; one upload
\* failed, the other reached the bucket
C31_Witness ==
    /\ pc = "done"
    /\ walkErr
    /\ Len(enqueued) = 2
    /\ enqueued[1] \in failedUp
    /\ enqueued[2] \notin failedUp
    /\ remote[enqueued[2]] # NoObj

\* the workers that are between Lock and Unlock
Appending == {w \in Workers : wstate[w] = "append"}
\* the workers whose upload failed and whose append is still to come
ToAppend == {w \in Workers : wstate[w] \in {"lock", "append"}}

\* C32: at most one worker is between Lock and Unlock, it is the holder of
\* the mutex, and the slice it read is still the list; every failure is in
\* the list or with a worker on its way to append it; and when
\* uploadDirectoryToS3 reads the list, after the join, the list holds each
\* failed task once and nothing else.
C32_ErrorListUnderMutex ==
    /\ Cardinality(Appending) <= 1
    /\ \A w \in Workers :
          wstate[w] = "append" => errorMutex = w /\ held[w] = uploadErrors
    /\ errorMutex # 0 => wstate[errorMutex] = "append"
    /\ Len(uploadErrors) + Cardinality(ToAppend) = Cardinality(failedUp)
    /\ Range(uploadErrors) \cup {wtask[w].s3Key : w \in ToAppend} = failedUp
    /\ pc \notin {"idle", "walk", "send", "close"} /\ WorkersJoined =>
          /\ Len(uploadErrors) = Cardinality(failedUp)
          /\ Range(uploadErrors) = failedUp

\* one worker holds the mutex while another, whose upload failed too,
\* waits in Lock
C32_Witness ==
    \E v \in Workers, w \in Workers :
       /\ wstate[v] = "append"
       /\ wstate[w] = "lock"
       /\ errorMutex = v

\* C35: the cycle's upload phase comes to its end, whatever fails; the
\* channel is closed once, by the caller after the walk has returned, and
\* nothing is sent on it afterwards; uploadDirectoryToS3 returns only with
\* the channel drained and the workers gone.
C35_UploadPhaseTerminates ==
    /\ <>UploadReturned
    /\ [][~closed /\ closed' => pc = "close" /\ pending = NoTask]_vars
    /\ [][closed => closed' /\ enqueued' = enqueued
                    /\ Len(tasks') <= Len(tasks)]_vars
    /\ [](UploadReturned => closed /\ tasks = <<>> /\ WorkersJoined)

\* the phase has ended after a walk error, with both kinds of outcome
C35_Witness ==
    /\ UploadReturned
    /\ walkErr
    /\ failedUp # {}
    /\ \E k \in Range(enqueued) : k \notin failedUp


---------------------------------------------------------------------------
(* Errors of the walks *)

\* C33: once the walk callback has returned an error, the walk is over: no
\* callback is waiting to send, no further file is examined, no further
\* HeadObject fails and no further task is sent; and the cycle ends with an
\* error without reconciliation.
C33_ScanErrorEndsProduction ==
    /\ [](walkErr => pc \in {"close", "wait", "done"} /\ pending = NoTask)
    /\ [][walkErr => /\ examined' = examined
                     /\ headErr' = headErr
                     /\ enqueued' = enqueued]_vars
    /\ [](walkErr /\ pc = "done" => result = "err" /\ lists = 0)

\* change detection failed on a file after a task had been sent, and a
\* later file was never looked at
C33_Witness ==
    /\ pc = "done"
    /\ phaseErr = "detect"
    /\ enqueued # <<>>
    /\ \E k \in Keys : /\ local[k] # NoFile
                       /\ ~shouldIgnore(ignorePatterns, k)
                       /\ k \notin examined


\* the keys of all local files
LocalKeys == {k \in Keys : local[k] # NoFile}

\* C36: a failure of the reconciler's walk ends the pass with an error
\* before any LIST or DELETE; whenever a LIST or a DELETE has been issued,
\* the key set is the whole set of local keys.
C36_NoReconOnPartialKeySet ==
    /\ phaseErr = "reconWalk" =>
          /\ pc = "done"
          /\ result = "err"
          /\ lists = 0
          /\ listed = {}
          /\ NoDeletes
    /\ (pc \in {"list", "page"} \/ lists > 0 \/ ~NoDeletes) =>
          localFiles = LocalKeys

\* the walk failed with part of the keys collected, while the bucket held
\* the object of a file the walk had not reached
C36_Witness ==
    /\ phaseErr = "reconWalk"
    /\ localFiles # {}
    /\ \E k \in LocalKeys : k \notin localFiles /\ remote[k] # NoObj


\* the keys the bucket holds
RemoteKeys == {k \in Keys : remote[k] # NoObj}

\* C37: after a cycle that reports success and whose DELETEs all succeeded,
\* every local file that is not ignored has an object, and every object has
\* a local file.
C37_RemoteBetweenLocalSets ==
    (pc = "done" /\ result = "ok" /\ deleteErr = {}) =>
       /\ Candidates \subseteq RemoteKeys
       /\ RemoteKeys \subseteq LocalKeys

\* a successful cycle that uploaded and deleted, and left an ignored
\* local file without an object
C37_Witness ==
    /\ pc = "done"
    /\ result = "ok"
    /\ deleteErr = {}
    /\ enqueued # <<>>
    /\ SomeDelete
    /\ \E k \in LocalKeys : k \notin RemoteKeys


\* C39: when the walk ended with an error and uploads failed too, the error
\* uploadDirectoryToS3 returns is the walk's; the upload failures are
\* returned only when the walk returned nil.
C39_WalkErrorHidesUploadFailures ==
    /\ (pc = "done" /\ walkErr /\ failedUp # {}) =>
          /\ result = "err"
          /\ phaseErr \in {"walk", "detect"}
    /\ (pc = "done" /\ phaseErr = "upload") =>
          /\ ~walkErr
          /\ uploadErrors # <<>>

\* the walk failed with an I/O error, and a task sent before it had failed
C39_Witness ==
    /\ pc = "done"
    /\ phaseErr = "walk"
    /\ uploadErrors # <<>>


---------------------------------------------------------------------------
(* A cycle run again on an unchanged tree *)

\* a file above the multipart threshold and a small one, both with a
\* modification time after the time the bucket stamps on the first upload
FileBig == [size |-> multipartThreshold + 1, modTime |-> MaxTime,
            content |-> "c1"]
FileAhead == [size |-> 5, modTime |-> MaxTime, content |-> "c1"]

RerunInit ==
    /\ \E fa \in {FileNew, FileAhead, FileBig} :
          local = [k \in Keys |-> IF k = KeyA THEN fa ELSE NoFile]
    /\ \E oa \in {NoObj, ObjStale}, ob \in {NoObj, ObjStale} :
          remote = [k \in Keys |->
                      IF k = KeyA THEN oa ELSE IF k = KeyB THEN ob ELSE NoObj]
    /\ now = 1
    /\ faulty = {}
    /\ pc = "idle"
    /\ dIn = NoInput
    /\ dOut = NoInput
    /\ upOut = NoInput
    /\ mp = NoInput
    /\ ignOut = NoInput
    /\ cycle = 1
    /\ sched = "off"
    /\ prev = NoInput
    /\ errorMutex = 0
    /\ held = [w \in Workers |-> <<>>]
    /\ other = OtherIdle
    /\ ignorePatterns = <<ExecName>>
    /\ Quiet

SpecRerun == RerunInit /\ [][CycNext]_vars

\* C38: the cycle that follows a cycle which reported success and whose
\* DELETEs all succeeded, on the same tree and bucket, sends no task, calls
\* no upload and issues no DELETE.
C38_SecondCycleDoesNothing ==
    (cycle = 2 /\ prev.result = "ok" /\ prev.deleteErr = {}) =>
       /\ enqueued = <<>>
       /\ \A k \in Keys : attempts[k] = 0 /\ deletes[k] = 0


---------------------------------------------------------------------------
(* Two cycles at once: the scheduler runs every job in a goroutine of its
   own, so a cycle can be started while the one before is running.  The
   first of the two is followed step by step; the second, held in other,
   is followed call by call, its calls succeeding, the bucket's keys
   fitting in one page of its listing. *)

otherFrame == << ignorePatterns, now, faulty, pc, walkVars, poolVars,
                 reconVars, result, detHist, upHist, reconHist, phaseErr,
                 dIn, dOut, upOut, mp, ignOut, cycle, sched, prev,
                 errorMutex, held >>

\* the scheduler has just started a cycle, after a first cycle that ended
\* well
OverlapInit ==
    /\ local = [k \in Keys |-> IF k = KeyA THEN FileNew ELSE NoFile]
    /\ \E oa \in {NoObj, ObjStale}, otc \in {NoObj, ObjStale} :
          remote = [k \in Keys |->
                      IF k = KeyA THEN oa ELSE IF k = KeyTC THEN otc ELSE NoObj]
    /\ now = MaxTime
    /\ faulty = {}
    /\ pc = "idle"
    /\ dIn = NoInput
    /\ dOut = NoInput
    /\ upOut = NoInput
    /\ mp = NoInput
    /\ ignOut = NoInput
    /\ cycle = 2
    /\ sched = "on"
    /\ prev = [result |-> "ok", phaseErr |-> "none", failedUp |-> {},
               headErr |-> {}, hashErr |-> {}, deleteErr |-> {}]
    /\ errorMutex = 0
    /\ held = [w \in Workers |-> <<>>]
    /\ other = OtherIdle
    /\ ignorePatterns = <<ExecName>>
    /\ Quiet

\* mutant: the scheduler leaves out a run while the job is still running
CronFire_skipIfRunning ==
    /\ sched = "on"
    /\ pc = "done"
    /\ other.pc = "off"
    /\ other' = [OtherIdle EXCEPT !.pc = "walk"]
    /\ UNCHANGED << local, remote, otherFrame >>

\* the time of the cron expression comes while the scheduler runs: the job
\* is started in a new goroutine, whatever the earlier run is doing
CronFire ==
    /\ sched = "on"
    /\ other.pc = "off"
    /\ other' = [OtherIdle EXCEPT !.pc = "walk"]
    /\ UNCHANGED << local, remote, otherFrame >>

\* the second cycle's walk callback for its next file, with the upload the
\* callback asks for
OtherVisit ==
    /\ other.pc = "walk"
    /\ other.wi <= Len(Entries)
    /\ LET k == Entries[other.wi]
           d == fileChangedOnS3(HeadOf(k), StatOf(local[k]),
                                calculateMD5(local[k]))
           r == uploadFileS3(uploadTask(k, local[k]), TRUE, TRUE)
       IN  remote' = IF ~shouldIgnore(ignorePatterns, k) /\ d.upload
                     THEN [remote EXCEPT ![k] =
                             StoredObject(local[k], r.multipart, now)]
                     ELSE remote
    /\ other' = [other EXCEPT !.wi = @ + 1]
    /\ UNCHANGED << local, otherFrame >>

\* the second cycle's upload phase returns nil and its reconciler walks
\* the tree
OtherReconWalk ==
    /\ other.pc = "walk"
    /\ other.wi > Len(Entries)
    /\ other' = [other EXCEPT !.pc = "list",
                              !.localFiles = {Entries[i] : i \in 1..Len(Entries)}]
    /\ UNCHANGED << local, remote, otherFrame >>

\* the second cycle's listing delivers its page
OtherList ==
    /\ other.pc = "list"
    /\ other' = [other EXCEPT !.pc = "page", !.page = RemoteKeysAfter(0),
                              !.pi = 1]
    /\ UNCHANGED << local, remote, otherFrame >>

\* the second cycle's page callback for the next object of the page
OtherObject ==
    /\ other.pc = "page"
    /\ other.pi <= Len(other.page)
    /\ LET k == other.page[other.pi] IN
       remote' = IF exists(other.localFiles, k) THEN remote
                 ELSE [remote EXCEPT ![k] = NoObj]
    /\ other' = [other EXCEPT !.pi = @ + 1]
    /\ UNCHANGED << local, otherFrame >>

\* the second cycle returns
OtherReturn ==
    /\ other.pc = "page"
    /\ other.pi > Len(other.page)
    /\ other' = [other EXCEPT !.pc = "done"]
    /\ UNCHANGED << local, remote, otherFrame >>

\* the user writes the file b into the tree, while no upload-phase walk is
\* under way
LocalCreate ==
    /\ local[KeyB] = NoFile
    /\ pc \notin {"idle", "walk", "send"}
    /\ other.pc # "walk"
    /\ local' = [local EXCEPT ![KeyB] = FileNew]
    /\ UNCHANGED << remote, otherFrame, other >>

OverlapNext ==
    \/ Next
    \/ CronFire
    \/ OtherVisit
    \/ OtherReconWalk
    \/ OtherList
    \/ OtherObject
    \/ OtherReturn
    \/ LocalCreate

SpecOverlap == OverlapInit /\ [][OverlapNext]_vars

\* C34: while the scheduler runs, a cycle that is due can start in every
\* state of the cycle that is running: nothing in the running cycle holds
\* it back.
C34_CyclesNotSerialized ==
    (sched = "on" /\ other.pc = "off") => ENABLED CronFire

\* a worker of the first cycle is uploading while the second cycle is
\* about to delete an object
C34_Witness ==
    /\ \E w \in Workers : wstate[w] = "upload"
    /\ other.pc = "page"
    /\ other.pi <= Len(other.page)
    /\ ~exists(other.localFiles, other.page[other.pi])

\* a DeleteObject for key k is issued in this step, by either cycle
DeleteIssued(k) ==
    \/ deletes'[k] > deletes[k]
    \/ /\ other.pc = "page"
       /\ other.pi <= Len(other.page)
       /\ other'.pi = other.pi + 1
       /\ other.page[other.pi] = k
       /\ ~exists(other.localFiles, k)

\* C40: with two cycles at once, no DeleteObject is issued for a key whose
\* local file exists at that moment.
C40_NoDeleteOfExistingFile ==
    [][\A k \in Keys : DeleteIssued(k) => local[k] = NoFile]_vars

====
